---- MODULE Spec2Model ----
(***************************************************************************)
(* Entity-resolution pipeline of the veteran-organisation directory:      *)
(* keyed merge (loaders/merger.py), three-tier deduplication               *)
(* (loaders/deduplicator.py), web enrichment (transformers/enricher.py),   *)
(* normalisation (transformers/normalizer.py) and the final sort of        *)
(* loaders/csv_writer.py, as state machines over record frames.            *)
(*                                                                         *)
(* A DataFrame is a sequence of rows; a row is a function from column      *)
(* names to values.  A string value is the sequence of its characters, so  *)
(* that split, join, upper, urlparse and the EIN formatting are computed   *)
(* on characters as the code computes them.  pd.NA is the value NA.        *)
(***************************************************************************)
EXTENDS Integers, Sequences, FiniteSets, TLC

VARIABLES
    pc,         \* position in the run being modelled
    base,       \* merge_all: the base frame
    src_name,   \* merge_all: name of the keyed source of the current iteration
    src_df,     \* merge_all: frame of the keyed source of the current iteration
    result,     \* merge_all: the result frame so far; the frame deduplicate is given
    df,         \* deduplicate / main: the frame flowing through the stages
    before,     \* the frame as it was before the last operation (history)
    scores,     \* rapidfuzz.fuzz.token_sort_ratio, as a table over name pairs
    alt,        \* the output df is compared with: of the first run, or per threshold
    pos,        \* merge_all: position in the source dict; deduplicate: the run
    budget,     \* rows the callers may still supply in this run
    keyed,      \* merge_all: the keyed sources merged so far, <<name, frame>> each
    \* BaseExtractor.run and the adapter's extract()
    xpc,        \* position of the adapter's process
    disk,       \* the checkpoint files: [full, partial]
    ein_list,   \* the adapter's input key list
    resume,     \* run's argument
    records,    \* extract: records obtained so far
    done_eins,  \* extract: keys marked done
    remaining,  \* extract: keys still to process, in order
    loaded,     \* extract: the done-set loaded from the partial checkpoint
    fetched,    \* keys fetched in this run, in order
    failed,     \* keys whose fetch raised in this run
    ret,        \* what run returned
    prior,      \* what earlier runs completed and obtained
    runs,       \* runs started so far
    \* RateLimitedSession
    hpc,        \* "idle" between calls, "sent" while a request awaits its response
    now,        \* time.time(), in ticks
    _last_request_time,
    min_interval,
    retries,    \* the session's Retry(total=...)
    _cache_dir, \* whether the session was given a cache_name
    cache,      \* the cache files: cache key -> stored response
    call,       \* the call in progress or last made
    total,      \* the request's Retry counter
    net,        \* the requests put on the network: key, time of the call, time sent
    attempts,   \* attempts made for the request of the current call
    resp,       \* what the last call returned or raised
    served,     \* cache key -> the first status 200 response a call returned
    calls,      \* calls made so far
    \* main
    mpc,        \* the stage main is about to run, "complete" or "exited"
    health,     \* per source: "up", "down", or "corrupt" (up, with a full
                \* checkpoint file that cannot be read)
    args_resume,
    frames,     \* base_df, pp_df, ...: what each adapter's run returned
    reached,    \* the stages from the merge on that have run
    exit_code,
    \* loaders/csv_writer.py: one row's confidence; the columns of a frame
    gpc,        \* "row" while the row is built, "graded" once it is scored;
                \* for the columns, the component that returned the frame
    row,        \* the row
    score,      \* calculate_confidence, in thousandths
    grade,      \* assign_grade
    columns,    \* the column names of the frame in hand
    source_columns  \* the column names of the frame being merged or appended

\* The variables of the merge, the deduplication and the output.
pipeline_vars ==
    <<pc, base, src_name, src_df, result, df, before, scores, alt, pos, budget,
      keyed>>

ext_vars ==
    <<xpc, disk, ein_list, resume, records, done_eins, remaining, loaded,
      fetched, failed, ret, prior, runs>>

http_vars ==
    <<hpc, now, _last_request_time, min_interval, retries, _cache_dir, cache,
      call, total, net, attempts, resp, served, calls>>

\* The variables of the extractors, the HTTP session and main's stages.
main_vars == <<mpc, health, args_resume, frames, reached, exit_code>>

out_vars == <<gpc, row, score, grade, columns, source_columns>>

io_vars == <<ext_vars, http_vars, main_vars, out_vars>>

vars == <<pipeline_vars, io_vars>>

----------------------------------------------------------------------------
(* Values *)

NA == <<"<NA>">>
EmptyStr == <<>>

isna(v) == v = NA
notna(v) == v # NA

\* The letters, for str.upper(), str.lower() and str.isalpha().
Uppercase ==
    <<"A", "B", "C", "D", "E", "F", "G", "H", "I", "J", "K", "L", "M",
      "N", "O", "P", "Q", "R", "S", "T", "U", "V", "W", "X", "Y", "Z">>

Lowercase ==
    <<"a", "b", "c", "d", "e", "f", "g", "h", "i", "j", "k", "l", "m",
      "n", "o", "p", "q", "r", "s", "t", "u", "v", "w", "x", "y", "z">>

\* The characters the model's strings use, in code-point order.
AsciiOrder ==
    <<" ", "(", ")", "+", "-", ".", "/",
      "0", "1", "2", "3", "4", "5", "6", "7", "8", "9", ":", ";", "@">>
    \o Uppercase \o <<"_">> \o Lowercase \o <<"|">>

Ord(c) == CHOOSE i \in 1..Len(AsciiOrder) : AsciiOrder[i] = c

Digits == {"0", "1", "2", "3", "4", "5", "6", "7", "8", "9"}

\* Python's str comparison: lexicographic by code point.
RECURSIVE StrLess(_, _)
StrLess(a, b) ==
    IF a = <<>> THEN b # <<>>
    ELSE IF b = <<>> THEN FALSE
    ELSE IF Head(a) = Head(b) THEN StrLess(Tail(a), Tail(b))
    ELSE Ord(Head(a)) < Ord(Head(b))

\* sorted(S) for a set of strings.
RECURSIVE sorted(_)
sorted(S) ==
    IF S = {} THEN <<>>
    ELSE LET m == CHOOSE x \in S : \A y \in S \ {x} : StrLess(x, y)
         IN <<m>> \o sorted(S \ {m})

\* s.split(sep) for a one-character separator.
RECURSIVE split(_, _)
split(s, sep) ==
    IF \A i \in 1..Len(s) : s[i] # sep THEN <<s>>
    ELSE LET i == CHOOSE k \in 1..Len(s) :
                      s[k] = sep /\ \A j \in 1..(k - 1) : s[j] # sep
         IN <<SubSeq(s, 1, i - 1)>> \o split(SubSeq(s, i + 1, Len(s)), sep)

\* sep.join(parts)
RECURSIVE join(_, _)
join(parts, sep) ==
    IF parts = <<>> THEN <<>>
    ELSE IF Len(parts) = 1 THEN parts[1]
    ELSE parts[1] \o <<sep>> \o join(Tail(parts), sep)

Range(s) == {s[i] : i \in 1..Len(s)}

\* str.upper() / str.lower(), character by character.
UpperChar(c) ==
    IF \E i \in 1..26 : Lowercase[i] = c
    THEN Uppercase[CHOOSE i \in 1..26 : Lowercase[i] = c] ELSE c

LowerChar(c) ==
    IF \E i \in 1..26 : Uppercase[i] = c
    THEN Lowercase[CHOOSE i \in 1..26 : Uppercase[i] = c] ELSE c

upper(s) == [i \in 1..Len(s) |-> UpperChar(s[i])]
lower(s) == [i \in 1..Len(s) |-> LowerChar(s[i])]

----------------------------------------------------------------------------
(* The canonical schema (config/schema.py), cut to the columns the merge,  *)
(* dedup, enrichment and normalisation rules read and the three columns    *)
(* write_csv derives; every other column of SCHEMA_COLUMNS is handled by   *)
(* merge and dedup exactly as "phone" is.                                  *)

COLUMN_NAMES ==
    {"org_name", "ein", "city", "state", "phone", "website", "email",
     "data_sources", "confidence_score", "confidence_grade",
     "confidence_detail"}

Row(name, ein, city, state, phone, website, ds) ==
    [org_name |-> name, ein |-> ein, city |-> city, state |-> state,
     phone |-> phone, website |-> website, email |-> NA, data_sources |-> ds,
     confidence_score |-> NA, confidence_grade |-> NA, confidence_detail |-> NA]

\* coerce_schema: a missing column becomes an explicit NA column and the
\* frame is cut to the canonical columns.
coerce_row(r) ==
    [col \in COLUMN_NAMES |-> IF col \in DOMAIN r THEN r[col] ELSE NA]

coerce_schema(frame) == [i \in 1..Len(frame) |-> coerce_row(frame[i])]

----------------------------------------------------------------------------
(* loaders/deduplicator.py *)

\* The sources listed by a data_sources value: val.split(";") without "".
SourcesOf(val) ==
    IF isna(val) THEN {} ELSE Range(split(val, ";")) \ {EmptyStr}

\* group[col].dropna().iloc[0], NA when the column is all NA.
FirstNonNull(group, col) ==
    IF \A i \in 1..Len(group) : isna(group[i][col]) THEN NA
    ELSE LET i == CHOOSE k \in 1..Len(group) :
                      notna(group[k][col])
                      /\ \A j \in 1..(k - 1) : isna(group[j][col])
         IN group[i][col]

\* drop_duplicates(keep="first") in place of the field-wise merge.
_merge_rows_keep_first(group) == group[1]

_merge_rows(group) ==
    IF Len(group) = 1 THEN group[1]
    ELSE LET first == group[1]
             filled == [col \in DOMAIN first |->
                           IF isna(first[col]) THEN FirstNonNull(group, col)
                           ELSE first[col]]
             sources == UNION {SourcesOf(group[i]["data_sources"]) :
                                  i \in 1..Len(group)}
         IN [filled EXCEPT !["data_sources"] = join(sorted(sources), ";")]

\* The identifier test without the empty-string exclusion.
has_ein_notna_only(r) == notna(r["ein"])

has_ein(r) == notna(r["ein"]) /\ r["ein"] # EmptyStr

\* The set S of row positions, ascending.
RECURSIVE ascending(_)
ascending(S) ==
    IF S = {} THEN <<>>
    ELSE LET m == CHOOSE x \in S : \A y \in S : x <= y
         IN <<m>> \o ascending(S \ {m})

\* frame[mask]: the rows at the positions S, in row order.
Pick(frame, S) == LET idx == ascending(S) IN [k \in 1..Len(idx) |-> frame[idx[k]]]

\* frame.groupby(by).apply(_merge_rows), by being the key column of frame:
\* one merged row per key value, the groups in sorted key order, the rows
\* of a group in row order.
GroupApply(frame, by) ==
    LET keys == sorted(Range(by))
        Members(k) == Pick(frame, {i \in 1..Len(frame) : by[i] = keys[k]})
    IN [k \in 1..Len(keys) |-> _merge_rows(Members(k))]

\* by.duplicated(keep=False), as the set of positions it marks.
Duplicated(by) ==
    {i \in 1..Len(by) : Cardinality({j \in 1..Len(by) : by[j] = by[i]}) >= 2}

_tier1_exact_ein(d) ==
    LET NoEin(r) == ~has_ein(r)
        with_ein == SelectSeq(d, has_ein)
        without_ein == SelectSeq(d, NoEin)
        eins == [i \in 1..Len(with_ein) |-> with_ein[i]["ein"]]
        dupes == Duplicated(eins)
        unique == Pick(with_ein, (1..Len(with_ein)) \ dupes)
        duplicated == Pick(with_ein, dupes)
        merged == GroupApply(duplicated, [i \in 1..Len(duplicated) |-> duplicated[i]["ein"]])
    IN IF with_ein = <<>> THEN d
       ELSE IF duplicated = <<>> THEN d
       ELSE unique \o merged \o without_ein

----------------------------------------------------------------------------
(* Strings of the runs *)

E1 == <<"1", "2", "3", "4", "5", "6", "7", "8", "9">>
E1dash == <<"1", "2", "-", "3", "4", "5", "6", "7", "8", "9">>
E2 == <<"9", "8", "7", "6", "5", "4", "3", "2", "1">>
P1 == <<"5", "0", "2", "5", "5", "5", "0", "1", "0", "0">>
P2 == <<"5", "0", "2", "5", "5", "5", "0", "1", "9", "9">>
irs_bmf == <<"i", "r", "s", "_", "b", "m", "f">>
propublica == <<"p", "r", "o", "p", "u", "b", "l", "i", "c", "a">>
charity_nav == <<"c", "h", "a", "r", "i", "t", "y", "_", "n", "a", "v">>
nrd == <<"n", "r", "d">>
va_vso == <<"v", "a", "_", "v", "s", "o">>
W_a == <<"h", "t", "t", "p", "s", ":", "/", "/", "a", ".", "o", "r", "g", "/", "c">>
W_wa == <<"h", "t", "t", "p", ":", "/", "/", "w", "w", "w", ".", "a", ".", "o", "r", "g">>
W_b == <<"h", "t", "t", "p", "s", ":", "/", "/", "b", ".", "o", "r", "g">>
W_bare == <<"a", ".", "o", "r", "g">>

----------------------------------------------------------------------------
(* Tier 1 alone: a frame is loaded row by row, then _tier1_exact_ein runs. *)

MaxRowsT1 == 4

\* (phone, website, data_sources) of the rows loaded for Tier 1.
PayloadsT1 ==
    { <<NA, NA, NA>>,
      <<P1, NA, irs_bmf>>,
      <<NA, W_a, nrd>>,
      <<EmptyStr, W_b, irs_bmf \o <<";">> \o nrd>> }

RowsT1 ==
    { Row(NA, e, NA, NA, p[1], p[2], p[3]) :
        e \in {NA, EmptyStr, E1, E2}, p \in PayloadsT1 }

\* A checkpoint file: not there, there but not a complete pickle, or the
\* pickle of an object.
NoFile == [tag |-> "none"]
Corrupt == [tag |-> "corrupt"]
Pickled(obj) == [tag |-> "pickle", obj |-> obj]

\* What a call has returned: nothing yet, None, or an object.
Unset == [kind |-> "unset"]
None == [kind |-> "None"]
Value(obj) == [kind |-> "value", obj |-> obj]

\* What the runs before this one completed and obtained, and whether the
\* last of them was killed.
NoPrior == [killed |-> FALSE, completed |-> {}, obtained |-> {}]

\* The adapter at rest.
ExtIdle ==
    /\ xpc = "idle" /\ disk = [full |-> NoFile, partial |-> NoFile]
    /\ ein_list = <<>> /\ resume = FALSE
    /\ records = <<>> /\ done_eins = {} /\ remaining = <<>> /\ loaded = {}
    /\ fetched = <<>> /\ failed = {} /\ ret = Unset /\ prior = NoPrior
    /\ runs = 0

\* No session.
HttpIdle ==
    /\ hpc = "idle" /\ now = 0 /\ _last_request_time = 0 /\ min_interval = 0
    /\ retries = 0 /\ _cache_dir = FALSE /\ cache = {} /\ call = Unset
    /\ total = 0 /\ net = <<>> /\ attempts = 0 /\ resp = Unset
    /\ served = {} /\ calls = 0

\* The extractors, the HTTP session and main's stages at rest.
\* main not started.
MainIdle ==
    /\ mpc = "idle" /\ health = <<>> /\ args_resume = FALSE /\ frames = <<>>
    /\ reached = {} /\ exit_code = 0

\* No row being scored.
OutIdle ==
    /\ gpc = "idle" /\ row = <<>> /\ score = 0 /\ grade = "F"
    /\ columns = {} /\ source_columns = {}

IoIdle == ExtIdle /\ HttpIdle /\ MainIdle /\ OutIdle

Idle ==
    /\ base = <<>> /\ src_name = NA /\ src_df = <<>> /\ result = <<>>
    /\ before = <<>> /\ scores = <<>> /\ alt = <<>> /\ pos = 0 /\ budget = 0
    /\ keyed = <<>>

InitT1 == pc = "load" /\ df = <<>> /\ Idle /\ IoIdle

LoadT1 ==
    /\ pc = "load"
    /\ Len(df) < MaxRowsT1
    /\ \E r \in RowsT1 : df' = Append(df, r)
    /\ UNCHANGED <<pc, base, src_name, src_df, result, before, scores, alt, pos, budget>>
    /\ UNCHANGED <<keyed, io_vars>>

RunTier1 ==
    /\ pc = "load"
    /\ before' = df
    /\ df' = _tier1_exact_ein(df)
    /\ pc' = "tier1"
    /\ UNCHANGED <<base, src_name, src_df, result, scores, alt, pos, budget>>
    /\ UNCHANGED <<keyed, io_vars>>

NextT1 == LoadT1 \/ RunTier1

SpecTier1 == InitT1 /\ [][NextT1]_vars

Count(frame, r) == Cardinality({i \in 1..Len(frame) : frame[i] = r})

\* The rows of frame whose identifier is e, in row order.
EinGroup(frame, e) == LET Same(r) == r["ein"] = e IN SelectSeq(frame, Same)

\* v is the value of the earliest row of group that has the column, NA if none has.
EarliestValue(group, col, v) ==
    \/ /\ \A i \in 1..Len(group) : isna(group[i][col])
       /\ isna(v)
    \/ \E k \in 1..Len(group) :
          /\ notna(group[k][col])
          /\ \A j \in 1..(k - 1) : isna(group[j][col])
          /\ v = group[k][col]

\* Tier 1 has merged the rows of identifier e into one row by the
\* first-non-absent rule, with the provenance of the whole group.
MergedByRule(e) ==
    LET group == EinGroup(before, e)
        hits == {i \in 1..Len(df) : df[i]["ein"] = e}
    IN /\ Cardinality(hits) = 1
       /\ \A i \in hits :
             /\ \A col \in COLUMN_NAMES \ {"data_sources"} :
                    EarliestValue(group, col, df[i][col])
             /\ SourcesOf(df[i]["data_sources"]) =
                    UNION {SourcesOf(group[k]["data_sources"]) : k \in 1..Len(group)}

\* C9 as stated: after Tier 1, every group of rows sharing a non-absent
\* identifier is one row, each field the earliest non-absent value of the
\* group in row order, the provenance the union over the group.
C9_Original ==
    pc = "tier1" =>
        \A e \in {before[i]["ein"] : i \in 1..Len(before)} :
            notna(e) => MergedByRule(e)

\* C9 amended: the same for every group sharing an identifier that is
\* neither absent nor the empty string (rows with an empty identifier are
\* not grouped).
C9_Tier1FirstNonAbsent ==
    pc = "tier1" =>
        \A e \in {before[i]["ein"] : i \in 1..Len(before)} :
            (notna(e) /\ e # EmptyStr) => MergedByRule(e)

\* C9 witness: two rows of one identifier, the first without a phone and
\* the second without a website, came out as one row with both and with
\* both sources.
C9_Witness ==
    /\ pc = "tier1"
    /\ \E i, j \in 1..Len(before) :
          /\ i < j
          /\ before[i]["ein"] = E1 /\ before[j]["ein"] = E1
          /\ isna(before[i]["phone"]) /\ before[i]["website"] = W_a
          /\ before[j]["phone"] = P1 /\ isna(before[j]["website"])
    /\ \E o \in Range(df) :
          /\ o["ein"] = E1 /\ o["phone"] = P1 /\ o["website"] = W_a
          /\ SourcesOf(o["data_sources"]) = {irs_bmf, nrd}

\* A row's identifier is absent or the empty string.
NoIdentifier(r) == isna(r["ein"]) \/ r["ein"] = EmptyStr

\* C10 as stated: after Tier 1 any two surviving rows differ in their
\* identifier or one of them has none (is absent), and every input row
\* without an identifier is in the output unchanged.
C10_Original ==
    pc = "tier1" =>
        /\ \A i, j \in 1..Len(df) :
              i # j => \/ df[i]["ein"] # df[j]["ein"]
                       \/ isna(df[i]["ein"]) \/ isna(df[j]["ein"])
        /\ \A r \in Range(before) : isna(r["ein"]) => Count(df, r) = Count(before, r)

\* C10 amended: after Tier 1 any two surviving rows differ in their
\* identifier or one of them has an absent or empty identifier, and every
\* input row whose identifier is absent or empty is in the output unchanged.
C10_Tier1Unique ==
    pc = "tier1" =>
        /\ \A i, j \in 1..Len(df) :
              i # j => \/ df[i]["ein"] # df[j]["ein"]
                       \/ NoIdentifier(df[i]) \/ NoIdentifier(df[j])
        /\ \A r \in Range(before) :
              NoIdentifier(r) => Count(df, r) = Count(before, r)

\* C10 witness: a group was merged while rows without an identifier, one
\* absent and one empty, went through.
C10_Witness ==
    /\ pc = "tier1"
    /\ Len(df) < Len(before)
    /\ \E r \in Range(before) : isna(r["ein"]) /\ r \in Range(df)
    /\ \E r \in Range(before) : r["ein"] = EmptyStr /\ r \in Range(df)

----------------------------------------------------------------------------
(* loaders/merger.py *)

SeqsUpTo(S, n) == UNION {[1..m -> S] : m \in 0..n}

\* source[src_cols].drop_duplicates(subset=["ein"]): the first row of each
\* identifier, absent identifiers counting as one value.
drop_duplicates_ein(source) ==
    LET First(i) == \A j \in 1..(i - 1) : source[j]["ein"] # source[i]["ein"]
        keep == {i \in 1..Len(source) : First(i)}
    IN Pick(source, keep)

\* The overwrite mask without the blank test: the source value always wins.
fill_mask_always(v) == TRUE

\* mask = merged[col].isna() | (merged[col] == "")
fill_mask(v) == isna(v) \/ v = EmptyStr

_smart_merge_on_ein(b, source, source_name) ==
    IF \A i \in 1..Len(source) : isna(source[i]["ein"]) THEN b
    ELSE
    LET \* the source columns that hold data
        src_cols == {col \in COLUMN_NAMES \ {"ein"} :
                        \E i \in 1..Len(source) : notna(source[i][col])}
        source_slim == drop_duplicates_ein(source)
        \* base.merge(source_slim, on="ein", how="left"): the columns of
        \* source_slim that base has too come out suffixed _{source_name}
        suffixed == src_cols \cap COLUMN_NAMES
        Right(r, col) ==
            LET hit == {j \in 1..Len(source_slim) : source_slim[j]["ein"] = r["ein"]}
            IN IF hit = {} THEN NA ELSE source_slim[CHOOSE j \in hit : TRUE][col]
        \* the fill loop: every column of src_cols whose suffixed column
        \* exists is filled where masked, and its suffixed column dropped
        looped == {col \in src_cols : col \in suffixed}
        Filled(r) == [col \in COLUMN_NAMES |->
                         IF col \in looped /\ fill_mask(r[col])
                         THEN Right(r, col) ELSE r[col]]
        after_loop == suffixed \ looped
        \* the data_sources union, taken when its suffixed column is left
        Unioned(r, m) ==
            IF "data_sources" \in after_loop /\ notna(Right(r, "data_sources"))
            THEN [m EXCEPT !["data_sources"] =
                     join(sorted(SourcesOf(m["data_sources"])
                                 \cup SourcesOf(Right(r, "data_sources"))), ";")]
            ELSE m
    IN [i \in 1..Len(b) |-> Unioned(b[i], Filled(b[i]))]

\* stage5_merge's dicts, in insertion order.
nodc == <<"n", "o", "d", "c">>
va_facilities == <<"v", "a", "_", "f", "a", "c">>
\* stage5_merge's keyed dict filled in the opposite order.
EIN_SOURCES_reversed == <<nodc, charity_nav, propublica>>

EIN_SOURCES == <<propublica, charity_nav, nodc>>
NON_EIN_SOURCES == <<va_vso, nrd, va_facilities>>

\* Priority order: lower index = higher priority for field values.
SOURCE_PRIORITY ==
    <<irs_bmf, propublica, charity_nav, va_facilities, va_vso, nodc, nrd>>

----------------------------------------------------------------------------
(* merge_all: the base is loaded row by row, then each keyed source is     *)
(* left-joined in dict order and each other source appended.               *)

MaxMergeRows == 3

P3 == <<"5", "0", "2", "5", "5", "5", "0", "1", "4", "2">>

\* Base rows: the IRS extract after BaseExtractor.run, and rows not stamped.
BaseRowsM ==
    { Row(NA, e, NA, NA, p[1], NA, p[2]) :
        e \in {NA, E1, E2},
        p \in {<<NA, irs_bmf>>, <<EmptyStr, irs_bmf>>, <<P1, irs_bmf>>, <<P1, NA>>} }

\* The phone a keyed source reports.
PhoneOf(name) ==
    IF name = propublica THEN P2 ELSE IF name = charity_nav THEN P3 ELSE P1

\* Rows of a keyed source before coerce_schema: identifier, phone, provenance.
KeyedRowsM(name) ==
    { [ein |-> e, phone |-> p[1], data_sources |-> p[2]] :
        e \in {NA, E1},
        p \in {<<PhoneOf(name), name>>, <<NA, name>>, <<PhoneOf(name), NA>>,
                <<EmptyStr, name>>} }

\* Rows of an appended source before coerce_schema: no identifier column.
AppendRowsM(name) ==
    { [org_name |-> <<"N", "1">>, website |-> w, data_sources |-> name] :
        w \in {EmptyStr, W_b} }

InitMerge ==
    /\ pc = "base" /\ base = <<>> /\ result = <<>> /\ before = <<>>
    /\ src_name = NA /\ src_df = <<>> /\ pos = 0 /\ budget = MaxMergeRows
    /\ df = <<>> /\ scores = <<>> /\ alt = <<>>
    /\ keyed = <<>> /\ IoIdle

LoadBase ==
    /\ pc = "base"
    /\ budget > 0
    /\ \E r \in BaseRowsM : base' = Append(base, r)
    /\ budget' = budget - 1
    /\ UNCHANGED <<pc, src_name, src_df, result, df, before, scores, alt, pos>>
    /\ UNCHANGED <<keyed, io_vars>>

\* merge_all is entered: result = coerce_schema(base.copy())
MergeAllStart ==
    /\ pc = "base"
    /\ result' = coerce_schema(base)
    /\ pc' = "keyed"
    /\ pos' = 1
    /\ UNCHANGED <<base, src_name, src_df, df, before, scores, alt, budget>>
    /\ UNCHANGED <<keyed, io_vars>>

\* one iteration of the loop over ein_sources
MergeKeyed ==
    /\ pc = "keyed"
    /\ pos <= Len(EIN_SOURCES)
    /\ \E frame \in SeqsUpTo(KeyedRowsM(EIN_SOURCES[pos]), budget) :
          /\ src_df' = frame
          /\ budget' = budget - Len(frame)
          /\ result' = IF frame = <<>> THEN result
                       ELSE _smart_merge_on_ein(result, coerce_schema(frame),
                                                EIN_SOURCES[pos])
          /\ keyed' = Append(keyed, <<EIN_SOURCES[pos], coerce_schema(frame)>>)
    /\ src_name' = EIN_SOURCES[pos]
    /\ before' = result
    /\ pos' = pos + 1
    /\ UNCHANGED <<pc, base, df, scores, alt>>
    /\ UNCHANGED io_vars

KeyedDone ==
    /\ pc = "keyed"
    /\ pos > Len(EIN_SOURCES)
    /\ pc' = "append"
    /\ pos' = 1
    /\ UNCHANGED <<base, src_name, src_df, result, df, before, scores, alt, budget>>
    /\ UNCHANGED <<keyed, io_vars>>

\* one iteration of the loop over non_ein_sources
AppendSource ==
    /\ pc = "append"
    /\ pos <= Len(NON_EIN_SOURCES)
    /\ \E frame \in SeqsUpTo(AppendRowsM(NON_EIN_SOURCES[pos]), budget) :
          /\ src_df' = frame
          /\ budget' = budget - Len(frame)
          /\ result' = IF frame = <<>> THEN result
                       ELSE result \o coerce_schema(frame)
    /\ src_name' = NON_EIN_SOURCES[pos]
    /\ before' = result
    /\ pos' = pos + 1
    /\ UNCHANGED <<pc, base, df, scores, alt>>
    /\ UNCHANGED <<keyed, io_vars>>

MergeAllReturn ==
    /\ pc = "append"
    /\ pos > Len(NON_EIN_SOURCES)
    /\ pc' = "merged"
    /\ UNCHANGED <<base, src_name, src_df, result, df, before, scores, alt, pos, budget>>
    /\ UNCHANGED <<keyed, io_vars>>

NextMerge ==
    LoadBase \/ MergeAllStart \/ MergeKeyed \/ KeyedDone \/ AppendSource
    \/ MergeAllReturn

SpecMerge == InitMerge /\ [][NextMerge]_vars

\* A keyed source has just been merged: before is the base of that merge,
\* src_df the source, result the merged frame.
JustMerged == pc = "keyed" /\ pos > 1 /\ src_df # <<>>

\* The row of the source that the left join pairs with base row r: the
\* first source row carrying r's identifier.
FirstMatch(r, j) ==
    /\ src_df[j]["ein"] = r["ein"]
    /\ \A i \in 1..(j - 1) : src_df[i]["ein"] # r["ein"]

\* C1: after a keyed merge, a base row that lists sources and is matched on
\* its identifier by a source row that lists sources carries the union of
\* both source sets.
C1_ProvenanceUnion ==
    JustMerged =>
        \A i \in 1..Len(before) : \A j \in 1..Len(src_df) :
            ( /\ notna(before[i]["ein"])
              /\ FirstMatch(before[i], j)
              /\ SourcesOf(before[i]["data_sources"]) # {}
              /\ SourcesOf(src_df[j]["data_sources"]) # {} )
            => /\ i <= Len(result)
               /\ SourcesOf(before[i]["data_sources"])
                      \cup SourcesOf(src_df[j]["data_sources"])
                  \subseteq SourcesOf(result[i]["data_sources"])

C30_AbsentKeyUntouched ==
    JustMerged =>
        /\ Len(result) = Len(before)
        /\ \A i \in 1..Len(before) :
              isna(before[i]["ein"]) => result[i] = before[i]

\* merge_all has returned: every keyed source was merged, base holds the
\* rows merge_all was given and result the rows it returned.
MergeReturned == pc = "merged"

\* Rank of a source in the configured priority list.
Rank(name) == CHOOSE k \in 1..Len(SOURCE_PRIORITY) : SOURCE_PRIORITY[k] = name

\* The value the k-th keyed source holds in column col for the record of
\* base row r: that of its first row carrying r's identifier, absent when
\* it has none.
Supplied(k, r, col) ==
    LET frame == keyed[k][2]
        hit == {j \in 1..Len(frame) : frame[j]["ein"] = r["ein"]}
    IN IF hit = {} THEN NA
       ELSE frame[CHOOSE j \in hit : \A h \in hit : j <= h][col]

\* The keyed sources holding a non-absent value for the field.
Suppliers(r, col) == {k \in 1..Len(keyed) : notna(Supplied(k, r, col))}

\* The keyed sources holding a value that is neither absent nor empty.
SuppliersNonEmpty(r, col) ==
    {k \in Suppliers(r, col) : Supplied(k, r, col) # EmptyStr}

\* The member of a set of keyed sources that ranks highest.
Highest(S) ==
    CHOOSE k \in S : \A h \in S : Rank(keyed[k][1]) <= Rank(keyed[h][1])

\* C19 as stated: a field absent in the base and held non-absent by keyed
\* sources has, after merge_all, the value of the highest-ranked of them.
C19_Original ==
    MergeReturned =>
        \A i \in 1..Len(base) : \A col \in COLUMN_NAMES \ {"ein"} :
            ( /\ notna(base[i]["ein"])
              /\ isna(base[i][col])
              /\ Suppliers(base[i], col) # {} )
            => result[i][col] =
                   Supplied(Highest(Suppliers(base[i], col)), base[i], col)

\* C19 amended: a field absent in the base and held, neither absent nor
\* empty, by keyed sources has, after merge_all, the value of the
\* highest-ranked of those sources; later sources do not change it.
C19_PriorityWins ==
    MergeReturned =>
        \A i \in 1..Len(base) : \A col \in COLUMN_NAMES \ {"ein"} :
            ( /\ notna(base[i]["ein"])
              /\ isna(base[i][col])
              /\ SuppliersNonEmpty(base[i], col) # {} )
            => result[i][col] =
                   Supplied(Highest(SuppliersNonEmpty(base[i], col)), base[i], col)

\* C19 witness: two keyed sources held different phones for a record whose
\* base phone was absent, and the record came out with the phone of the
\* higher-ranked one.
C19_Witness ==
    /\ MergeReturned
    /\ \E i \in 1..Len(base) : \E k, h \in 1..Len(keyed) :
          /\ base[i]["ein"] = E1 /\ isna(base[i]["phone"])
          /\ Rank(keyed[k][1]) < Rank(keyed[h][1])
          /\ Supplied(k, base[i], "phone") = P2
          /\ Supplied(h, base[i], "phone") = P3
          /\ result[i]["phone"] = P2

----------------------------------------------------------------------------
(* loaders/deduplicator.py, Tier 2 and Tier 3 *)

\* fuzz.token_sort_ratio(a, b): the library's score is read from the table
\* scores, which is symmetric (indexed by the unordered pair); a string
\* compared with itself scores 100.
token_sort_ratio(a, b) == IF a = b THEN 100 ELSE scores[{a, b}]

\* The default of _tier2_fuzzy_name_city's threshold parameter.
threshold_default == 85

has_location(r) == notna(r["city"]) /\ notna(r["state"]) /\ notna(r["org_name"])

_group_key(r) == upper(r["state"]) \o <<"|">> \o upper(r["city"])

\* The inner loops over one city+state group: idxs are the positions of
\* the group's rows in candidates, in row order.  Each position not yet
\* matched heads a cluster of the later unmatched positions whose name
\* scores at least threshold against the head's name; the clusters with
\* more than one member are returned in the order they are numbered.
RECURSIVE clusters(_, _, _, _, _)
clusters(candidates, idxs, i, matched, threshold) ==
    IF i > Len(idxs) THEN <<>>
    ELSE IF idxs[i] \in matched
         THEN clusters(candidates, idxs, i + 1, matched, threshold)
    ELSE LET linked == {idxs[j] : j \in {k \in (i + 1)..Len(idxs) :
                           /\ idxs[k] \notin matched
                           /\ token_sort_ratio(candidates[idxs[i]]["org_name"],
                                               candidates[idxs[k]]["org_name"])
                                  >= threshold}}
         IN (IF linked # {} THEN <<{idxs[i]} \cup linked>> ELSE <<>>)
            \o clusters(candidates, idxs, i + 1, matched \cup linked, threshold)

\* The outer loop over candidates.groupby("_group_key"): the groups in
\* sorted key order, groups of one row skipped.
RECURSIVE merge_map(_, _, _)
merge_map(candidates, keys, threshold) ==
    IF keys = <<>> THEN <<>>
    ELSE LET idxs == ascending({i \in 1..Len(candidates) :
                                   _group_key(candidates[i]) = Head(keys)})
         IN (IF Len(idxs) < 2 THEN <<>>
             ELSE clusters(candidates, idxs, 1, {}, threshold))
            \o merge_map(candidates, Tail(keys), threshold)

_tier2_fuzzy_name_city(d, threshold) ==
    LET NoLocation(r) == ~has_location(r)
        candidates == SelectSeq(d, has_location)
        no_location == SelectSeq(d, NoLocation)
    IN IF Len(candidates) < 2 THEN d
       ELSE
       LET keys == sorted({_group_key(candidates[i]) : i \in 1..Len(candidates)})
           groups == merge_map(candidates, keys, threshold)
           to_merge_idx == UNION Range(groups)
           unmerged == Pick(candidates, (1..Len(candidates)) \ to_merge_idx)
           merged == [g \in 1..Len(groups) |-> _merge_rows(Pick(candidates, groups[g]))]
       IN IF groups = <<>> THEN candidates \o no_location
          ELSE unmerged \o merged \o no_location

\* str.isalpha() for one character.
Letters == Range(Uppercase) \cup Range(Lowercase)

\* The first position of character c in s, 0 when s does not hold it.
find(s, c) ==
    IF c \notin Range(s) THEN 0
    ELSE CHOOSE i \in 1..Len(s) : s[i] = c /\ \A j \in 1..(i - 1) : s[j] # c

\* urllib.parse.urlparse(url) for a URL without params, query or fragment:
\* a scheme is a letter followed by letters, digits, "+", "-" or "." up to
\* the first ":"; a netloc is what follows "//" up to the next "/".
urlparse(url) ==
    LET i == find(url, ":")
        has_scheme == /\ i > 1
                      /\ url[1] \in Letters
                      /\ \A k \in 1..(i - 1) :
                            url[k] \in Letters \cup Digits \cup {"+", "-", "."}
        rest == IF has_scheme THEN SubSeq(url, i + 1, Len(url)) ELSE url
        has_netloc == Len(rest) >= 2 /\ rest[1] = "/" /\ rest[2] = "/"
        after == SubSeq(rest, 3, Len(rest))
        delim == IF find(after, "/") = 0 THEN Len(after) + 1 ELSE find(after, "/")
    IN [scheme |-> IF has_scheme THEN lower(SubSeq(url, 1, i - 1)) ELSE EmptyStr,
        netloc |-> IF has_netloc THEN SubSeq(after, 1, delim - 1) ELSE EmptyStr,
        path   |-> IF has_netloc THEN SubSeq(after, delim, Len(after)) ELSE rest]

startswith(s, prefix) ==
    Len(s) >= Len(prefix) /\ SubSeq(s, 1, Len(prefix)) = prefix

get_domain(url) ==
    LET domain == lower(urlparse(url).netloc)
    IN IF startswith(domain, <<"w", "w", "w", ".">>)
       THEN SubSeq(domain, 5, Len(domain)) ELSE domain

has_url(r) == notna(r["website"]) /\ r["website"] # EmptyStr

\* Tier 3 returning the rows of each domain group next to the merged row.
_tier3_keep_duplicated(d) ==
    LET NoUrl(r) == ~has_url(r)
        HasDomain(r) == get_domain(r["website"]) # EmptyStr
        with_url == SelectSeq(SelectSeq(d, has_url), HasDomain)
        duplicated == Pick(with_url,
                           Duplicated([i \in 1..Len(with_url) |->
                                          get_domain(with_url[i]["website"])]))
        merged == GroupApply(duplicated,
                     [i \in 1..Len(duplicated) |-> get_domain(duplicated[i]["website"])])
    IN IF Len(SelectSeq(d, has_url)) < 2 THEN d
       ELSE with_url \o merged \o SelectSeq(d, NoUrl)

_tier3_url_domain(d) ==
    LET NoUrl(r) == ~has_url(r)
        all_with_url == SelectSeq(d, has_url)
        without_url == SelectSeq(d, NoUrl)
        HasDomain(r) == get_domain(r["website"]) # EmptyStr
        with_url == SelectSeq(all_with_url, HasDomain)
        domains == [i \in 1..Len(with_url) |-> get_domain(with_url[i]["website"])]
        dupes == Duplicated(domains)
        unique == Pick(with_url, (1..Len(with_url)) \ dupes)
        duplicated == Pick(with_url, dupes)
        merged == GroupApply(duplicated,
                     [i \in 1..Len(duplicated) |-> get_domain(duplicated[i]["website"])])
    IN IF Len(all_with_url) < 2 THEN d
       ELSE IF duplicated = <<>> THEN with_url \o without_url
       ELSE unique \o merged \o without_url

deduplicate(d) ==
    _tier3_url_domain(_tier2_fuzzy_name_city(_tier1_exact_ein(d), threshold_default))

----------------------------------------------------------------------------
(* Tier 2 alone: the i-th row loaded carries the i-th name and the i-th    *)
(* source tag, so that a merged row's data_sources tells which rows it     *)
(* was merged from; the pairwise scores of the names are any table.        *)

N1 == <<"N", "1">>
N2 == <<"N", "2">>
N3 == <<"N", "3">>
N4 == <<"N", "4">>
NamesT2 == <<N1, N2, N3, N4>>
TagsT2 == <<irs_bmf, nrd, va_vso, propublica>>
MaxRowsT2 == Len(NamesT2)

Pairs(names) == {{names[i], names[j]} : i, j \in 1..Len(names)} \ {{names[i]} : i \in 1..Len(names)}

\* Scores below, between and above the thresholds compared.
LevelsT2 == {70, 82, 90}
Thresholds == {80, threshold_default}

\* (city, state) of the rows loaded for Tier 2.
LocsT2 ==
    { <<<<"x">>, <<"K", "Y">>>>, <<<<"X">>, <<"k", "y">>>>,
      <<<<"y">>, <<"K", "Y">>>>, <<NA, <<"K", "Y">>>> }

InitT2 ==
    /\ pc = "load" /\ df = <<>>
    /\ scores \in [Pairs(NamesT2) -> LevelsT2]
    /\ base = <<>> /\ src_name = NA /\ src_df = <<>> /\ result = <<>>
    /\ before = <<>> /\ alt = <<>> /\ pos = 0 /\ budget = 0
    /\ keyed = <<>> /\ IoIdle

LoadT2 ==
    /\ pc = "load"
    /\ Len(df) < MaxRowsT2
    /\ \E loc \in LocsT2 :
          df' = Append(df, Row(NamesT2[Len(df) + 1], NA, loc[1], loc[2],
                               NA, NA, TagsT2[Len(df) + 1]))
    /\ UNCHANGED <<pc, base, src_name, src_df, result, before, scores, alt, pos, budget>>
    /\ UNCHANGED <<keyed, io_vars>>

\* _tier2_fuzzy_name_city(df) with the default threshold; alt keeps what
\* the same call returns for each threshold of Thresholds.
RunTier2 ==
    /\ pc = "load"
    /\ before' = df
    /\ df' = _tier2_fuzzy_name_city(df, threshold_default)
    /\ alt' = [t \in Thresholds |-> _tier2_fuzzy_name_city(df, t)]
    /\ pc' = "tier2"
    /\ UNCHANGED <<base, src_name, src_df, result, scores, pos, budget>>
    /\ UNCHANGED <<keyed, io_vars>>

NextT2 == LoadT2 \/ RunTier2

SpecTier2 == InitT2 /\ [][NextT2]_vars

\* Rows i and j of before are Tier-2 candidates of the same city and state
\* (case-insensitively) whose names score at least the threshold.
Similar(i, j) ==
    /\ i # j
    /\ has_location(before[i]) /\ has_location(before[j])
    /\ upper(before[i]["city"]) = upper(before[j]["city"])
    /\ upper(before[i]["state"]) = upper(before[j]["state"])
    /\ token_sort_ratio(before[i]["org_name"], before[j]["org_name"]) >= threshold_default

\* The rows linked to a row of S by a chain of Similar pairs.
RECURSIVE Chained(_)
Chained(S) ==
    LET T == S \cup {j \in 1..Len(before) : \E i \in S : Similar(i, j)}
    IN IF T = S THEN S ELSE Chained(T)

\* Rows i and j of before went into one row of df.
SameOutput(i, j) ==
    \E o \in 1..Len(df) :
        SourcesOf(before[i]["data_sources"]) \cup SourcesOf(before[j]["data_sources"])
            \subseteq SourcesOf(df[o]["data_sources"])

\* C6: after Tier 2, any two candidate records of one city and state that
\* are linked by a chain of pairs scoring at least the threshold are in
\* the same output record.
C6_Tier2Transitive ==
    pc = "tier2" =>
        \A i \in 1..Len(before) : \A j \in Chained({i}) : SameOutput(i, j)

\* C8: on one input with fixed scores, the records Tier 2 removes at a
\* lower threshold are at least as many as at a higher threshold.
C8_Tier2Monotone ==
    pc = "tier2" =>
        \A t1, t2 \in Thresholds :
            t1 <= t2 =>
                Len(before) - Len(alt[t1]) >= Len(before) - Len(alt[t2])

----------------------------------------------------------------------------
(* deduplicate: the merged frame is loaded row by row (the i-th row with   *)
(* the i-th name and source tag), then the three tiers run in sequence;    *)
(* deduplicate may then be run once more on its own output.                *)

NamesD == <<N1, N2, N3>>
TagsD == <<irs_bmf, nrd, va_vso>>
MaxRowsD == Len(NamesD)

\* Scores below and above the default threshold.
LevelsD == {70, 90}

\* The rows that may be loaded at position i.
RowsD(i) ==
    { Row(NamesD[i], e, loc[1], loc[2], NA, w, TagsD[i]) :
        e \in {NA, E1},
        loc \in { <<NA, NA>>, <<<<"x">>, NA>>, <<NA, <<"K", "Y">>>>,
                  <<<<"x">>, <<"K", "Y">>>> },
        w \in {NA, W_a, W_wa, W_bare} }

InitDedup ==
    /\ pc = "load" /\ result = <<>> /\ df = <<>>
    /\ scores \in [Pairs(NamesD) -> LevelsD]
    /\ base = <<>> /\ src_name = NA /\ src_df = <<>>
    /\ before = <<>> /\ alt = <<>> /\ pos = 0 /\ budget = 0
    /\ keyed = <<>> /\ IoIdle

LoadD ==
    /\ pc = "load"
    /\ Len(result) < MaxRowsD
    /\ \E r \in RowsD(Len(result) + 1) : result' = Append(result, r)
    /\ UNCHANGED <<pc, base, src_name, src_df, df, before, scores, alt, pos, budget>>
    /\ UNCHANGED <<keyed, io_vars>>

\* deduplicate(merged): df = _tier1_exact_ein(df).  pos counts the runs.
DedupTier1 ==
    /\ pc = "load"
    /\ before' = result
    /\ df' = _tier1_exact_ein(result)
    /\ pos' = 1
    /\ pc' = "tier1"
    /\ UNCHANGED <<base, src_name, src_df, result, scores, alt, budget>>
    /\ UNCHANGED <<keyed, io_vars>>

\* df = _tier2_fuzzy_name_city(df)
DedupTier2 ==
    /\ pc = "tier1"
    /\ before' = df
    /\ df' = _tier2_fuzzy_name_city(df, threshold_default)
    /\ pc' = "tier2"
    /\ UNCHANGED <<base, src_name, src_df, result, scores, alt, pos, budget>>
    /\ UNCHANGED <<keyed, io_vars>>

\* df = _tier3_url_domain(df); return df.reset_index(drop=True)
DedupTier3 ==
    /\ pc = "tier2"
    /\ before' = df
    /\ df' = _tier3_url_domain(df)
    /\ pc' = "deduped"
    /\ UNCHANGED <<base, src_name, src_df, result, scores, alt, pos, budget>>
    /\ UNCHANGED <<keyed, io_vars>>

\* deduplicate run again on its own output, which alt keeps.
DedupAgain ==
    /\ pc = "deduped"
    /\ pos = 1
    /\ alt' = df
    /\ before' = df
    /\ df' = _tier1_exact_ein(df)
    /\ pos' = 2
    /\ pc' = "tier1"
    /\ UNCHANGED <<base, src_name, src_df, result, scores, budget>>
    /\ UNCHANGED <<keyed, io_vars>>

NextDedup == LoadD \/ DedupTier1 \/ DedupTier2 \/ DedupTier3 \/ DedupAgain

SpecDedup == InitDedup /\ [][NextDedup]_vars

\* C4: Tier 3 passes through, with all fields unchanged, every record
\* whose website is absent or has no root domain.
C4_Tier3PassThrough ==
    pc = "deduped" =>
        \A i \in 1..Len(before) :
            (isna(before[i]["website"]) \/ get_domain(before[i]["website"]) = EmptyStr)
                => Count(df, before[i]) >= Count(before, before[i])

\* C5: deduplicate loses no record: every record of its input is in the
\* output, or is a member of a merged group whose merged record is.
C5_NoRecordLost ==
    (pc = "deduped" /\ pos = 1) =>
        \A i \in 1..Len(result) :
            \E o \in 1..Len(df) :
                \/ df[o] = result[i]
                \/ SourcesOf(result[i]["data_sources"])
                       \subseteq SourcesOf(df[o]["data_sources"])

\* C7: deduplicate run on its own output returns the same number of rows
\* and the same records.
C7_Idempotent ==
    (pc = "deduped" /\ pos = 2) =>
        /\ Len(df) = Len(alt)
        /\ \A r \in Range(df) \cup Range(alt) : Count(df, r) = Count(alt, r)

\* C28: after Tier 2 and after Tier 3 no two rows carry the same identifier,
\* unless it is absent or empty.
C28_Tiers23KeepUnique ==
    pc \in {"tier2", "deduped"} =>
        \A i, j \in 1..Len(df) :
            i # j => \/ NoIdentifier(df[i]) \/ NoIdentifier(df[j])
                     \/ df[i]["ein"] # df[j]["ein"]

\* C28 witness: Tier 3 merged a row without an identifier with the row that
\* carries one, and the merged row carries it.
C28_Witness ==
    /\ pc = "deduped"
    /\ Len(before) = 2 /\ Len(df) = 1
    /\ isna(before[1]["ein"]) /\ before[2]["ein"] = E1
    /\ df[1]["ein"] = E1

----------------------------------------------------------------------------
(* transformers/normalizer.py *)

\* re.sub(r"[^0-9]", "", s)
digits_of(s) == LET IsDigit(c) == c \in Digits IN SelectSeq(s, IsDigit)

normalize_ein(ein) ==
    IF isna(ein) THEN NA
    ELSE LET d == digits_of(ein)
         IN IF Len(d) # 9 THEN NA
            ELSE SubSeq(d, 1, 2) \o <<"-">> \o SubSeq(d, 3, 9)

normalize_phone(phone) ==
    IF isna(phone) THEN NA
    ELSE LET all == digits_of(phone)
             d == IF Len(all) = 11 /\ all[1] = "1" THEN Tail(all) ELSE all
         IN IF Len(d) # 10 THEN NA
            ELSE <<"(">> \o SubSeq(d, 1, 3) \o <<")", " ">> \o SubSeq(d, 4, 6)
                 \o <<"-">> \o SubSeq(d, 7, 10)

\* s.lstrip(c) / s.rstrip(c) / s.strip() for blanks
RECURSIVE lstrip(_, _)
lstrip(s, c) == IF s # <<>> /\ Head(s) = c THEN lstrip(Tail(s), c) ELSE s

RECURSIVE rstrip(_, _)
rstrip(s, c) ==
    IF s # <<>> /\ s[Len(s)] = c THEN rstrip(SubSeq(s, 1, Len(s) - 1), c) ELSE s

strip(s) == rstrip(lstrip(s, " "), " ")

normalize_url(url) ==
    IF isna(url) THEN NA
    ELSE LET stripped == strip(url)
             with_scheme ==
                 IF \/ startswith(stripped, <<"h", "t", "t", "p", ":", "/", "/">>)
                    \/ startswith(stripped, <<"h", "t", "t", "p", "s", ":", "/", "/">>)
                 THEN stripped ELSE <<"h", "t", "t", "p", "s", ":", "/", "/">> \o stripped
             parsed == urlparse(with_scheme)
         IN IF stripped = EmptyStr THEN NA
            ELSE IF parsed.netloc = EmptyStr THEN NA
            ELSE rstrip(parsed.scheme \o <<":", "/", "/">> \o lower(parsed.netloc)
                        \o parsed.path, "/")

\* state_map, cut to the names the runs use.
state_map == [s \in {<<"K", "E", "N", "T", "U", "C", "K", "Y">>} |-> <<"K", "Y">>]

normalize_state(state) ==
    IF isna(state) THEN NA
    ELSE LET st == upper(strip(state))
         IN IF Len(st) = 2 THEN st
            ELSE IF st \in DOMAIN state_map THEN state_map[st] ELSE NA

\* str.title(): a letter is upper-cased after a non-letter, lower-cased
\* after a letter.
title(s) ==
    [i \in 1..Len(s) |->
        IF i = 1 \/ s[i - 1] \notin Letters THEN UpperChar(s[i]) ELSE LowerChar(s[i])]

\* s.split(): the non-empty words between blanks.
words_of(s) == LET NonEmpty(w) == w # <<>> IN SelectSeq(split(s, " "), NonEmpty)

acronyms ==
    { <<"V", "F", "W">>, <<"D", "A", "V">>, <<"A", "M", "V", "E", "T", "S">>,
      <<"U", "S", "O">>, <<"V", "A">>, <<"U", "S", "A">>, <<"U", "S">>,
      <<"P", "T", "S", "D">>, <<"P", "O", "W">>, <<"M", "I", "A">> }

normalize_org_name(name) ==
    IF isna(name) THEN NA
    ELSE IF strip(name) = EmptyStr THEN NA
    ELSE LET words == words_of(title(strip(name)))
             result_words == [k \in 1..Len(words) |->
                                 IF upper(words[k]) \in acronyms
                                 THEN upper(words[k]) ELSE words[k]]
         IN join(result_words, " ")

\* df["email"].str.strip().str.lower()
normalize_email(email) == IF isna(email) THEN NA ELSE lower(strip(email))

normalize_dataframe(frame) ==
    [i \in 1..Len(frame) |->
        [frame[i] EXCEPT !["ein"] = normalize_ein(@),
                         !["phone"] = normalize_phone(@),
                         !["website"] = normalize_url(@),
                         !["state"] = normalize_state(@),
                         !["org_name"] = normalize_org_name(@),
                         !["email"] = normalize_email(@)]]

----------------------------------------------------------------------------
(* transformers/enricher.py and loaders/csv_writer.py *)

\* filter_by_state's mask; state_filter NA stands for "no --state-filter".
in_state_filter(r, state_filter) ==
    isna(state_filter)
    \/ (notna(r["state"]) /\ upper(r["state"]) = upper(state_filter))

\* WebEnricher.enrich's needs_enrichment row test.  The social-media
\* columns are outside COLUMN_NAMES and absent on every row, so the test
\* on them is true.
needs_enrichment(r) == notna(r["website"])

\* The address a scraped page yields.
scraped_email == <<"x", "@", "a", ".", "o", "r", "g">>

\* WebEnricher.enrich, and main's merged.update(enrichment_df) when a state
\* filter is given: hits are the positions whose scrape returned data; a
\* scraped value is written only where the field is absent.
enrich(frame, state_filter, hits) ==
    [i \in 1..Len(frame) |->
        IF /\ i \in hits
           /\ in_state_filter(frame[i], state_filter)
           /\ needs_enrichment(frame[i])
           /\ isna(frame[i]["email"])
        THEN [frame[i] EXCEPT !["email"] = scraped_email]
        ELSE frame[i]]

\* CONFIDENCE_WEIGHTS, in dict order; the weights are in hundredths.
CONFIDENCE_WEIGHTS ==
    << <<"org_name", 10>>, <<"ein", 8>>, <<"street_address", 6>>,
       <<"city", 5>>, <<"state", 5>>, <<"zip_code", 4>>, <<"phone", 6>>,
       <<"email", 6>>, <<"website", 6>>, <<"ntee_code", 4>>,
       <<"mission_statement", 5>>, <<"total_revenue", 5>>,
       <<"total_assets", 4>>, <<"num_employees", 3>>,
       <<"charity_navigator_rating", 4>>, <<"va_accredited", 3>>,
       <<"services_offered", 4>>, <<"facebook_url", 2>>,
       <<"twitter_url", 2>>, <<"data_sources", 4>>, <<"key_personnel", 4>> >>

\* A value counting as filled whenever it is not absent.
is_filled_notna(r, col) == col \in DOMAIN r /\ notna(r[col])

\* filled = df[col].notna() & (df[col].astype(str).str.strip() != ""),
\* for a column the frame has
is_filled(r, col) ==
    col \in DOMAIN r /\ notna(r[col]) /\ strip(r[col]) # EmptyStr

\* scores += filled.astype(float) * weight, over the first n weights
RECURSIVE weighted_sum(_, _)
weighted_sum(r, n) ==
    IF n = 0 THEN 0
    ELSE weighted_sum(r, n - 1)
         + (IF is_filled(r, CONFIDENCE_WEIGHTS[n][1])
            THEN CONFIDENCE_WEIGHTS[n][2] ELSE 0)

\* total_weight = sum(CONFIDENCE_WEIGHTS.values())
RECURSIVE total_weight(_)
total_weight(n) ==
    IF n = 0 THEN 0 ELSE total_weight(n - 1) + CONFIDENCE_WEIGHTS[n][2]

\* (num / den).round(3), in thousandths: to the nearest, halves to even
round3(num, den) ==
    LET q == (1000 * num) \div den
        rest == (1000 * num) % den
    IN IF 2 * rest > den \/ (2 * rest = den /\ q % 2 = 1) THEN q + 1 ELSE q

\* calculate_confidence, for one row
calculate_confidence(r) ==
    LET n == Len(CONFIDENCE_WEIGHTS)
    IN IF total_weight(n) > 0
       THEN round3(weighted_sum(r, n), total_weight(n))
       ELSE 1000 * weighted_sum(r, n)

\* row.get(col) on a row of the coerced frame, where every column exists; a
\* column this model leaves out of a row holds the absent value.
get(r, col) == IF col \in DOMAIN r THEN r[col] ELSE NA

\* _row_has(row, col): not None, not NA, not blank
_row_has(r, col) == notna(get(r, col)) /\ strip(get(r, col)) # EmptyStr

Yes == <<"Y", "e", "s">>

\* An address that only a street line makes.
has_address_street_only(r) == _row_has(r, "street_address")

\* has_address
has_address(r) ==
    _row_has(r, "street_address")
    \/ (_row_has(r, "city") /\ _row_has(r, "state"))

\* has_contact
has_contact(r) ==
    _row_has(r, "phone") \/ _row_has(r, "email") \/ _row_has(r, "website")

\* has_rating: the value of `_row_has(...) or (row.get("va_accredited") == "Yes")`,
\* whose second operand is pd.NA when the accreditation is absent.
has_rating(r) ==
    IF _row_has(r, "charity_navigator_rating") THEN "True"
    ELSE IF isna(get(r, "va_accredited")) THEN "NA"
    ELSE IF get(r, "va_accredited") = Yes THEN "True" ELSE "False"

\* has_identity
has_identity(r) == _row_has(r, "org_name") /\ _row_has(r, "ein") /\ has_address(r)

\* bool(pd.NA) raises TypeError
TypeError == "TypeError"

\* assign_grade; the first test is `if ... and has_rating`, which takes the
\* truth value of has_rating once the three operands before it are true.
assign_grade(r) ==
    LET has_financials == _row_has(r, "total_revenue")
        has_ntee == _row_has(r, "ntee_code")
    IN IF /\ has_identity(r) /\ has_financials /\ has_contact(r)
          /\ has_rating(r) = "NA"
       THEN TypeError
       ELSE IF /\ has_identity(r) /\ has_financials /\ has_contact(r)
               /\ has_rating(r) = "True"
       THEN "A"
       ELSE IF has_identity(r) /\ has_financials /\ has_ntee THEN "B"
       ELSE IF has_identity(r) /\ (has_financials \/ has_ntee) THEN "C"
       ELSE IF _row_has(r, "org_name") /\ _row_has(r, "ein") /\ has_address(r)
       THEN "D"
       ELSE "F"

\* sort_values' order on one column with na_position="last".
ValueLess(a, b) == IF isna(a) THEN FALSE ELSE IF isna(b) THEN TRUE ELSE StrLess(a, b)

RowLess(r, t) ==
    \/ ValueLess(r["state"], t["state"])
    \/ (r["state"] = t["state"] /\ ValueLess(r["org_name"], t["org_name"]))

\* df.sort_values(["state", "org_name"], na_position="last"), rows with
\* equal keys in row order.
RECURSIVE sort_values(_)
sort_values(frame) ==
    IF frame = <<>> THEN <<>>
    ELSE LET i == CHOOSE k \in 1..Len(frame) :
                      /\ \A j \in 1..Len(frame) : ~RowLess(frame[j], frame[k])
                      /\ \A j \in 1..(k - 1) : RowLess(frame[k], frame[j])
         IN <<frame[i]>> \o sort_values(Pick(frame, (1..Len(frame)) \ {i}))

\* Series.str.contains(pat, na=False) for a pattern of letters and "_"
str_contains(s, pat) ==
    \E k \in 1..(Len(s) - Len(pat) + 1) : SubSeq(s, k, k + Len(pat) - 1) = pat

\* FIELD_GROUPS in dict order: key, fields, source_hint.
FIELD_GROUPS ==
    << <<"identity", <<"org_name", "ein", "org_type">>, irs_bmf>>,
       <<"location", <<"street_address", "city", "state", "zip_code">>, irs_bmf>>,
       <<"classification", <<"ntee_code", "irs_subsection", "tax_exempt_status">>,
         irs_bmf>>,
       <<"financials",
         <<"total_revenue", "total_expenses", "total_assets", "net_assets">>,
         propublica>>,
       <<"contact", <<"phone", "email", "website">>, <<"w", "e", "b", "_", "e", "n", "r", "i", "c", "h", "m", "e", "n", "t">>>>,
       <<"ratings", <<"charity_navigator_rating", "va_accredited">>,
         charity_nav \o <<" ", "/", " ">> \o va_vso>>,
       <<"description",
         <<"mission_statement", "services_offered", "service_categories">>,
         nrd \o <<" ", "/", " ">> \o <<"w", "e", "b", "_", "e", "n", "r", "i", "c", "h", "m", "e", "n", "t">>>>,
       <<"social",
         <<"facebook_url", "twitter_url", "linkedin_url", "instagram_url">>,
         <<"w", "e", "b", "_", "e", "n", "r", "i", "c", "h", "m", "e", "n", "t">>>>,
       <<"personnel", <<"key_personnel", "board_members">>,
         propublica \o <<" ", "/", " ">> \o nrd>> >>

\* str(n) for one digit
DigitChars == <<"0", "1", "2", "3", "4", "5", "6", "7", "8", "9">>
str_digit(n) == DigitChars[n + 1]

\* to_csv's text of a score of n thousandths: 0.0, 0.18, 0.125, 1.0
format_score(n) ==
    LET frac == n % 1000
        d1 == frac \div 100
        d2 == (frac \div 10) % 10
        d3 == frac % 10
        decimals == IF d3 # 0 THEN <<d1, d2, d3>>
                    ELSE IF d2 # 0 THEN <<d1, d2>> ELSE <<d1>>
    IN <<str_digit(n \div 1000), ".">>
       \o [k \in 1..Len(decimals) |-> str_digit(decimals[k])]

\* _detail_for_row: the source named for a group
group_source(gkey, hint, ds) ==
    IF ds = EmptyStr THEN hint
    ELSE LET ds_lower == lower(ds)
         IN IF gkey = "financials" /\ str_contains(ds_lower, propublica)
            THEN propublica
            ELSE IF /\ gkey \in {"identity", "location", "classification"}
                    /\ str_contains(ds_lower, irs_bmf)
            THEN irs_bmf
            ELSE IF /\ gkey = "contact"
                    /\ (str_contains(ds_lower, va_vso)
                        \/ str_contains(ds_lower, <<"w", "e", "b">>))
            THEN (IF str_contains(ds_lower, va_vso) THEN va_vso ELSE <<"w", "e", "b", "_", "e", "n", "r", "i", "c", "h", "m", "e", "n", "t">>)
            ELSE IF gkey = "ratings" /\ str_contains(ds_lower, charity_nav)
            THEN charity_nav
            ELSE hint

\* _detail_for_row raises on `if ds and ...` when data_sources is absent,
\* and where assign_grade raises.
detail_raises(r) == isna(get(r, "data_sources")) \/ assign_grade(r) = TypeError

\* _detail_for_row: the content of the JSON text, the grade first and then
\* filled/total@source for every group
RECURSIVE groups_text(_, _)
groups_text(r, n) ==
    IF n = 0 THEN <<>>
    ELSE LET g == FIELD_GROUPS[n]
             filled == Cardinality({k \in 1..Len(g[2]) : _row_has(r, g[2][k])})
         IN groups_text(r, n - 1)
            \o <<";", str_digit(filled), "/", str_digit(Len(g[2])), "@">>
            \o group_source(g[1], g[3], get(r, "data_sources"))

_detail_for_row(r) == <<assign_grade(r)>> \o groups_text(r, Len(FIELD_GROUPS))

\* A write_csv that keeps the confidence values a row came with.
confidence_kept(r, col, derived) == IF notna(r[col]) THEN r[col] ELSE derived

\* df[col] = derived: whatever the column held is replaced
confidence_assigned(r, col, derived) == derived

\* write_csv: the rows of the CSV, on the columns of COLUMN_NAMES; the
\* TypeError of a row leaves write_csv.
write_csv(frame) ==
    LET coerced == coerce_schema(frame)
        derived(r) ==
            [r EXCEPT
                !["confidence_score"] =
                    confidence_assigned(r, "confidence_score",
                                        format_score(calculate_confidence(r))),
                !["confidence_detail"] =
                    confidence_assigned(r, "confidence_detail", _detail_for_row(r)),
                !["confidence_grade"] =
                    confidence_assigned(r, "confidence_grade", <<assign_grade(r)>>)]
    IN IF \E i \in 1..Len(coerced) : detail_raises(coerced[i])
       THEN [kind |-> "raised", error |-> TypeError]
       ELSE sort_values([i \in 1..Len(coerced) |-> derived(coerced[i])])

----------------------------------------------------------------------------
(* main: stages 5 to 8 on one base frame and its sources.                  *)

MaxPipelineRows == 3

\* Base rows of the pipeline: the IRS extract, identifiers as the file has them.
BaseRowsP ==
    { Row(N1, e, <<"x">>, st, NA, w, irs_bmf) :
        e \in {NA, E1, E1dash},
        st \in {NA, <<"K", "Y">>},
        w \in {NA, W_wa} }

\* --state-filter values: none, or a state code.
StateFilters == {NA, <<"k", "y">>}

InitPipeline ==
    /\ pc = "base" /\ base = <<>> /\ result = <<>> /\ before = <<>>
    /\ src_name = NA /\ src_df = <<>> /\ pos = 0 /\ budget = MaxPipelineRows
    /\ df = <<>> /\ scores = <<>> /\ alt = <<>>
    /\ keyed = <<>> /\ IoIdle

LoadBaseP ==
    /\ pc = "base"
    /\ budget > 0
    /\ \E r \in BaseRowsP : base' = Append(base, r)
    /\ budget' = budget - 1
    /\ UNCHANGED <<pc, src_name, src_df, result, df, before, scores, alt, pos>>
    /\ UNCHANGED <<keyed, io_vars>>

\* merged = stage6_dedup(merged)
Stage6Dedup ==
    /\ pc = "merged"
    /\ df' = deduplicate(result)
    /\ pc' = "deduped"
    /\ UNCHANGED <<base, src_name, src_df, result, before, scores, alt, pos, budget>>
    /\ UNCHANGED <<keyed, io_vars>>

\* stage 7, with or without a state filter
Stage7Enrichment ==
    /\ pc = "deduped"
    /\ \E state_filter \in StateFilters : \E hits \in SUBSET (1..Len(df)) :
          df' = enrich(df, state_filter, hits)
    /\ before' = df
    /\ pc' = "enriched"
    /\ UNCHANGED <<base, src_name, src_df, result, scores, alt, pos, budget>>
    /\ UNCHANGED <<keyed, io_vars>>

\* stage8_output: normalize_dataframe, then write_csv
Stage8Output ==
    /\ pc = "enriched"
    /\ before' = df
    /\ df' = write_csv(normalize_dataframe(df))
    /\ pc' = "written"
    /\ UNCHANGED <<base, src_name, src_df, result, scores, alt, pos, budget>>
    /\ UNCHANGED <<keyed, io_vars>>

NextPipeline ==
    LoadBaseP \/ MergeAllStart \/ MergeKeyed \/ KeyedDone \/ AppendSource
    \/ MergeAllReturn \/ Stage6Dedup \/ Stage7Enrichment \/ Stage8Output

SpecPipeline == InitPipeline /\ [][NextPipeline]_vars

\* C2: in the final output no two records carry the same non-absent
\* strong identifier.
C2_FinalEinUnique ==
    pc = "written" =>
        \A i, j \in 1..Len(df) :
            (i # j /\ notna(df[i]["ein"])) => df[i]["ein"] # df[j]["ein"]

-----------------------------------------------------------------------------
(* utils/checkpoint.py, extractors/base_extractor.py and the adapters that  *)
(* snapshot their item loop (extractors/propublica.py; charity_nav.py and   *)
(* transformers/enricher.py run the same loop)                              *)

\* has_checkpoint(name): the file exists
has_checkpoint(name) == disk[name] # NoFile

\* load_checkpoint(name): None when the file is missing or pickle.load
\* fails on it
load_checkpoint(name) ==
    IF disk[name]["tag"] = "pickle" THEN Value(disk[name]["obj"]) ELSE None

\* save_checkpoint(name, data) opens the file for writing, which empties
\* it, and then dumps the pickle into it.
opened(name) == [disk EXCEPT ![name] = Corrupt]
dumped(name, data) == [disk EXCEPT ![name] = Pickled(data)]

\* The record _fetch_ein returns for a key.
Record(k) == [ein |-> k]

\* The loop marking every key done but the ones whose fetch raised.
done_unless_raised(done, ein, raised) == IF raised THEN done ELSE done \cup {ein}

\* done_eins.add(ein), after the try statement
done_add(done, ein, raised) == done \cup {ein}

\* The loop going over the whole input list.
remaining_all(list, done) == list

\* remaining = [e for e in self.ein_list if e not in done_eins]
remaining_of(list, done) == SelectSeq(list, LAMBDA e : e \notin done)

\* settings.py sets CHECKPOINT_INTERVAL to 500; the interval is scaled to
\* the key lists explored here.
CHECKPOINT_INTERVAL == 2
MaxRuns == 3

E3 == <<"5", "5", "5", "0", "0", "0", "1", "1", "1">>
Keys == {E1, E2, E3}

\* main builds the key list with .unique(): no key appears twice.
KeyLists ==
    {l \in SeqsUpTo(Keys, Cardinality(Keys)) :
        l # <<>> /\ \A i, j \in 1..Len(l) : i # j => l[i] # l[j]}

InitExtract ==
    /\ xpc = "idle" /\ disk = [full |-> NoFile, partial |-> NoFile]
    /\ ein_list \in KeyLists /\ resume = FALSE
    /\ records = <<>> /\ done_eins = {} /\ remaining = <<>> /\ loaded = {}
    /\ fetched = <<>> /\ failed = {} /\ ret = Unset /\ prior = NoPrior
    /\ runs = 0
    /\ pc = "load" /\ df = <<>> /\ Idle /\ HttpIdle /\ MainIdle /\ OutIdle

\* The process is started and calls run(resume).
RunCall ==
    /\ xpc \in {"idle", "killed", "returned"}
    /\ runs < MaxRuns
    /\ runs' = runs + 1
    /\ resume' \in BOOLEAN
    /\ xpc' = "run"
    /\ records' = <<>> /\ done_eins' = {} /\ remaining' = <<>> /\ loaded' = {}
    /\ fetched' = <<>> /\ failed' = {} /\ ret' = Unset
    /\ UNCHANGED <<disk, ein_list, prior>>
    /\ UNCHANGED <<pipeline_vars, http_vars, main_vars, out_vars>>

\* run: if resume and has_checkpoint(...): return load_checkpoint(...)
RunResume ==
    /\ xpc = "run"
    /\ resume /\ has_checkpoint("full")
    /\ ret' = load_checkpoint("full")
    /\ xpc' = "returned"
    /\ UNCHANGED <<disk, ein_list, resume, records, done_eins, remaining, loaded,
                   fetched, failed, prior, runs>>
    /\ UNCHANGED <<pipeline_vars, http_vars, main_vars, out_vars>>

\* run calls extract, which loads the partial checkpoint and lists the keys
\* still to process.
ExtractStart ==
    /\ xpc = "run"
    /\ ~(resume /\ has_checkpoint("full"))
    /\ LET partial == load_checkpoint("partial")
           recs == IF partial # None THEN partial["obj"][1] ELSE <<>>
           done == IF partial # None THEN partial["obj"][2] ELSE {}
       IN /\ records' = recs
          /\ done_eins' = done
          /\ loaded' = done
          /\ remaining' = remaining_of(ein_list, done)
    /\ xpc' = "loop"
    /\ UNCHANGED <<disk, ein_list, resume, fetched, failed, ret, prior, runs>>
    /\ UNCHANGED <<pipeline_vars, http_vars, main_vars, out_vars>>

\* The try statement of one iteration: _fetch_ein returns a record, returns
\* None, or raises and the exception is logged.
Fetch ==
    /\ xpc = "loop"
    /\ remaining # <<>>
    /\ LET ein == Head(remaining)
       IN /\ fetched' = Append(fetched, ein)
          /\ \E outcome \in {"data", "none", "raise"} :
                /\ records' = IF outcome = "data"
                              THEN Append(records, Record(ein)) ELSE records
                /\ failed' = IF outcome = "raise"
                             THEN failed \cup {ein} ELSE failed
    /\ xpc' = "fetched"
    /\ UNCHANGED <<disk, ein_list, resume, done_eins, remaining, loaded, ret,
                   prior, runs>>
    /\ UNCHANGED <<pipeline_vars, http_vars, main_vars, out_vars>>

\* done_eins.add(ein), then the test of (i + 1) % CHECKPOINT_INTERVAL
MarkDone ==
    /\ xpc = "fetched"
    /\ LET ein == Head(remaining)
       IN done_eins' = done_add(done_eins, ein, ein \in failed)
    /\ remaining' = Tail(remaining)
    /\ xpc' = IF Len(fetched) % CHECKPOINT_INTERVAL = 0 THEN "save" ELSE "loop"
    /\ UNCHANGED <<disk, ein_list, resume, records, loaded, fetched, failed, ret,
                   prior, runs>>
    /\ UNCHANGED <<pipeline_vars, http_vars, main_vars, out_vars>>

\* save_checkpoint(f"{self.name}_partial", ...): open(path, "wb")
SaveOpen ==
    /\ xpc = "save"
    /\ disk' = opened("partial")
    /\ xpc' = "dump"
    /\ UNCHANGED <<ein_list, resume, records, done_eins, remaining, loaded,
                   fetched, failed, ret, prior, runs>>
    /\ UNCHANGED <<pipeline_vars, http_vars, main_vars, out_vars>>

\* save_checkpoint(f"{self.name}_partial", ...): pickle.dump
SaveDump ==
    /\ xpc = "dump"
    /\ disk' = dumped("partial", <<records, done_eins>>)
    /\ xpc' = "loop"
    /\ UNCHANGED <<ein_list, resume, records, done_eins, remaining, loaded,
                   fetched, failed, ret, prior, runs>>
    /\ UNCHANGED <<pipeline_vars, http_vars, main_vars, out_vars>>

\* extract returns; run transforms, stamps and writes the parquet file, and
\* save_checkpoint opens the full checkpoint.
PersistOpen ==
    /\ xpc = "loop"
    /\ remaining = <<>>
    /\ disk' = opened("full")
    /\ xpc' = "persist"
    /\ UNCHANGED <<ein_list, resume, records, done_eins, remaining, loaded,
                   fetched, failed, ret, prior, runs>>
    /\ UNCHANGED <<pipeline_vars, http_vars, main_vars, out_vars>>

\* save_checkpoint dumps the frame and run returns it.
PersistDump ==
    /\ xpc = "persist"
    /\ disk' = dumped("full", records)
    /\ ret' = Value(records)
    /\ xpc' = "returned"
    /\ prior' = [killed |-> FALSE,
                 completed |-> prior["completed"] \cup done_eins,
                 obtained |-> prior["obtained"] \cup Range(records)]
    /\ UNCHANGED <<ein_list, resume, records, done_eins, remaining, loaded,
                   fetched, failed, runs>>
    /\ UNCHANGED <<pipeline_vars, http_vars, main_vars, out_vars>>

\* The process is killed inside run: what is in memory is gone, the files
\* stay as they are.
Kill ==
    /\ xpc \in {"run", "loop", "fetched", "save", "dump", "persist"}
    /\ xpc' = "killed"
    /\ prior' = [killed |-> TRUE,
                 completed |-> prior["completed"] \cup done_eins,
                 obtained |-> prior["obtained"] \cup Range(records)]
    /\ UNCHANGED <<disk, ein_list, resume, records, done_eins, remaining, loaded,
                   fetched, failed, ret, runs>>
    /\ UNCHANGED <<pipeline_vars, http_vars, main_vars, out_vars>>

NextExtract ==
    RunCall \/ RunResume \/ ExtractStart \/ Fetch \/ MarkDone \/ SaveOpen
    \/ SaveDump \/ PersistOpen \/ PersistDump \/ Kill

SpecExtract == InitExtract /\ [][NextExtract]_vars

\* C11: a run(resume=True) that finds a full checkpoint it cannot read goes
\* on to a fresh extract; it does not return at once.
C11_CorruptMeansFresh ==
    [][(xpc = "run" /\ resume /\ disk["full"] = Corrupt)
           => xpc' \in {"loop", "killed"}]_vars

\* This run follows a killed one.
Resumed == prior["killed"] /\ xpc # "killed"

\* C12: in a run that follows a killed one, no key completed before the kill
\* is fetched, and the frame the run returns holds every record obtained
\* before the kill.
C12_NoRepeatNoLoss ==
    Resumed =>
        /\ \A n \in 1..Len(fetched) : fetched[n] \notin prior["completed"]
        /\ (xpc = "returned" /\ ret # None)
           => prior["obtained"] \subseteq Range(ret["obj"])

\* C13: whenever a run has been killed, the partial checkpoint on disk is
\* missing or loads as a pair whose done-set holds only completed keys and
\* whose records are exactly the ones obtained for those keys.
C13_PartialConsistent ==
    xpc = "killed" =>
        /\ disk["partial"] # Corrupt
        /\ disk["partial"] # NoFile =>
              LET recs == disk["partial"]["obj"][1]
                  done == disk["partial"]["obj"][2]
              IN /\ done \subseteq prior["completed"]
                 /\ Range(recs) = {r \in prior["obtained"] : r["ein"] \in done}

\* The input key list without the keys of the loaded done-set.
Unloaded == SelectSeq(ein_list, LAMBDA e : e \notin loaded)

\* s is an initial part of t.
IsPrefix(s, t) == Len(s) <= Len(t) /\ \A n \in 1..Len(s) : s[n] = t[n]

\* C14: the keys a run fetches are the input keys outside the loaded
\* done-set, in input order, each once: an initial part of them while the
\* loop runs, all of them when extract returns.
C14_ResumeSkipsDone ==
    /\ xpc \in {"loop", "fetched", "save", "dump"} => IsPrefix(fetched, Unloaded)
    /\ xpc = "persist" => fetched = Unloaded

\* C14 witness: extract returned in a run that loaded a done-set and fetched
\* the other keys.
C14_Witness ==
    /\ xpc = "persist" /\ loaded # {} /\ fetched # <<>>
    /\ Len(fetched) < Len(ein_list)

\* C15: a key whose fetch raised is in the done-set once its iteration is
\* over, has no record, and was fetched once; when extract returns every
\* key outside the loaded done-set was fetched and every input key is in
\* the done-set.
C15_FailedKeyMarkedDone ==
    /\ xpc \in {"loop", "save", "dump", "persist"} => failed \subseteq done_eins
    /\ xpc # "killed" =>
          \A k \in failed :
              /\ Record(k) \notin Range(records)
              /\ Cardinality({n \in 1..Len(fetched) : fetched[n] = k}) = 1
    /\ xpc = "persist" =>
          /\ Range(ein_list) \ loaded \subseteq Range(fetched)
          /\ Range(ein_list) \subseteq done_eins

\* C15 witness: extract returned after a fetch raised and a later key was
\* fetched all the same.
C15_Witness ==
    /\ xpc = "persist"
    /\ \E n \in 1..Len(fetched) :
          /\ n < Len(fetched)
          /\ fetched[n] \in failed
          /\ fetched[n + 1] \notin failed
          /\ Record(fetched[n + 1]) \in Range(records)

\* C27: a run(resume=False) starts from nothing: it loads no done-set, every
\* record it holds comes from a key it fetched itself, and when extract
\* returns it has fetched the whole input list.
C27_FreshRunStartsFromNothing ==
    (~resume /\ xpc \in {"loop", "fetched", "save", "dump", "persist"}) =>
        /\ loaded = {}
        /\ \A n \in 1..Len(records) : records[n]["ein"] \in Range(fetched)
        /\ xpc = "persist" => fetched = ein_list

-----------------------------------------------------------------------------
(* utils/http_client.py: RateLimitedSession.  Time is counted in ticks; the *)
(* HTTPAdapter's Retry is followed as urllib3 runs it.                      *)

GET == <<"G", "E", "T">>
POST == <<"P", "O", "S", "T">>
URL_x == <<"h", ":", "/", "/", "x">>

\* json.dumps(kwargs.get("params", {}), sort_keys=True)
NoParams == <<"{", "}">>
SomeParams == <<"{", "q", "}">>
ParamsJson == {NoParams, SomeParams}

status_forcelist == {429, 500, 502, 503, 504}

\* What the server answers.
Statuses == {200, 404, 503}
Contents == {"a", "b"}

\* settings.py
DEFAULT_RETRIES == 3

\* min_interval = 1.0 / rate_limit if rate_limit > 0 else 0, in ticks
MinIntervals == {0, 1, 2}
Longest == CHOOSE m \in MinIntervals : \A n \in MinIntervals : n <= m

MaxCalls == 2
MaxTime == 4
MaxAttempts == 6

Response(status, content) ==
    [kind |-> "response", status_code |-> status, content |-> content]
Raised(error) == [kind |-> "raised", error |-> error]

\* f"{method}:{url}:{json.dumps(params)}"; its sha256 digest names the file
_cache_key(method, url, params) == method \o <<":">> \o url \o <<":">> \o params

\* _get_cached(cache_key)
_get_cached(key) ==
    IF _cache_dir /\ \E c \in cache : c["key"] = key
    THEN Value(CHOOSE c \in cache : c["key"] = key)
    ELSE None

\* _set_cached(cache_key, data): write_text replaces the file
_set_cached(key, status, content) ==
    IF _cache_dir
    THEN {c \in cache : c["key"] # key}
             \cup {[key |-> key, status_code |-> status, content |-> content]}
    ELSE cache

\* A session that never sleeps.
not_waited == now

\* _wait_for_rate_limit: the time at which it returns
waited ==
    IF min_interval > 0 /\ now - _last_request_time < min_interval
    THEN _last_request_time + min_interval
    ELSE now

\* A Retry that never counts as used up.
is_exhausted_never(t) == FALSE

\* urllib3 Retry.is_exhausted, on the counter after Retry.increment
is_exhausted(t) == t < 0

\* urllib3 Retry.get_backoff_time with backoff_factor 1.0: nothing before
\* the first retry, then 2, 4, ...
get_backoff_time(errors) == IF errors <= 1 THEN 0 ELSE 2 ^ (errors - 1)

InitHttp ==
    /\ hpc = "idle" /\ now = Longest /\ _last_request_time = 0
    /\ min_interval \in MinIntervals
    /\ retries \in {0, DEFAULT_RETRIES}
    /\ _cache_dir \in BOOLEAN
    /\ cache = {} /\ call = Unset /\ total = 0 /\ net = <<>> /\ attempts = 0
    /\ resp = Unset /\ served = {} /\ calls = 0
    /\ pc = "load" /\ df = <<>> /\ Idle /\ ExtIdle /\ MainIdle /\ OutIdle

\* Time passes between two calls.
Tick ==
    /\ hpc = "idle"
    /\ now < MaxTime
    /\ now' = now + 1
    /\ UNCHANGED <<hpc, _last_request_time, min_interval, retries, _cache_dir,
                   cache, call, total, net, attempts, resp, served, calls>>
    /\ UNCHANGED <<pipeline_vars, ext_vars, main_vars, out_vars>>

\* The part get, post and download_file share: _wait_for_rate_limit, then
\* the request goes to the session.
Send(op, method, key, use_cache) ==
    /\ now' = waited
    /\ _last_request_time' = waited
    /\ call' = [op |-> op, method |-> method, key |-> key,
                use_cache |-> use_cache]
    /\ net' = Append(net, [key |-> key, arrived |-> now, t |-> waited])
    /\ total' = retries
    /\ attempts' = 1
    /\ resp' = Unset
    /\ hpc' = "sent"
    /\ UNCHANGED <<cache, served>>

\* The call is one the session memoizes for: it has a cache directory and
\* the caller did not opt out.
Memoized(c) ==
    /\ _cache_dir
    /\ c["op"] = "post" \/ (c["op"] = "get" /\ c["use_cache"])

\* get(url, use_cache, params=...): a cached response is returned at once
GetCall ==
    /\ hpc = "idle"
    /\ calls < MaxCalls
    /\ calls' = calls + 1
    /\ \E params \in ParamsJson, use_cache \in BOOLEAN :
          LET key == _cache_key(GET, URL_x, params)
              cached == _get_cached(key)
          IN IF use_cache /\ _cache_dir /\ cached # None
             THEN /\ resp' = Response(cached["obj"]["status_code"],
                                      cached["obj"]["content"])
                  /\ call' = [op |-> "get", method |-> GET, key |-> key,
                              use_cache |-> use_cache]
                  /\ UNCHANGED <<hpc, now, _last_request_time, cache, total,
                                 net, attempts, served>>
             ELSE Send("get", GET, key, use_cache)
    /\ UNCHANGED <<min_interval, retries, _cache_dir>>
    /\ UNCHANGED <<pipeline_vars, ext_vars, main_vars, out_vars>>

\* post(url, ...)
PostCall ==
    /\ hpc = "idle"
    /\ calls < MaxCalls
    /\ calls' = calls + 1
    /\ Send("post", POST, _cache_key(POST, URL_x, NoParams), FALSE)
    /\ UNCHANGED <<min_interval, retries, _cache_dir>>
    /\ UNCHANGED <<pipeline_vars, ext_vars, main_vars, out_vars>>

\* download_file(url, dest)
DownloadCall ==
    /\ hpc = "idle"
    /\ calls < MaxCalls
    /\ calls' = calls + 1
    /\ Send("download_file", GET, _cache_key(GET, URL_x, NoParams), FALSE)
    /\ UNCHANGED <<min_interval, retries, _cache_dir>>
    /\ UNCHANGED <<pipeline_vars, ext_vars, main_vars, out_vars>>

\* The server answers with a status of status_forcelist: the adapter counts
\* the retry down and either sleeps and sends the request again or, the
\* Retry used up, raises.
Retry ==
    /\ hpc = "sent"
    /\ \E status \in Statuses \cap status_forcelist :
          IF is_exhausted(total - 1)
          THEN /\ resp' = Raised("RetryError")
               /\ hpc' = "idle"
               /\ UNCHANGED <<now, attempts>>
          ELSE /\ attempts < MaxAttempts
               /\ now' = now + get_backoff_time(attempts)
               /\ attempts' = attempts + 1
               /\ UNCHANGED <<hpc, resp>>
    /\ total' = total - 1
    /\ UNCHANGED <<_last_request_time, min_interval, retries, _cache_dir, cache,
                   call, net, served, calls>>
    /\ UNCHANGED <<pipeline_vars, ext_vars, main_vars, out_vars>>

\* The server answers with another status and the call returns:
\* download_file after raise_for_status, get after writing a status 200
\* response to the cache.
Return ==
    /\ hpc = "sent"
    /\ \E status \in Statuses \ status_forcelist, content \in Contents :
          LET stored == /\ call["op"] = "get" /\ call["use_cache"]
                        /\ _cache_dir /\ status = 200
          IN /\ resp' = IF call["op"] = "download_file" /\ status >= 400
                        THEN Raised("HTTPError")
                        ELSE Response(status, content)
             /\ cache' = IF stored
                         THEN _set_cached(call["key"], status, content)
                         ELSE cache
             /\ served' =
                   IF /\ status = 200 /\ Memoized(call)
                      /\ ~\E c \in served : c["key"] = call["key"]
                   THEN served \cup {[key |-> call["key"], status_code |-> status,
                                      content |-> content]}
                   ELSE served
    /\ hpc' = "idle"
    /\ UNCHANGED <<now, _last_request_time, min_interval, retries, _cache_dir,
                   call, total, net, attempts, calls>>
    /\ UNCHANGED <<pipeline_vars, ext_vars, main_vars, out_vars>>

NextHttp == Tick \/ GetCall \/ PostCall \/ DownloadCall \/ Retry \/ Return

SpecHttp == InitHttp /\ [][NextHttp]_vars

\* C16: with min_interval > 0, two consecutive requests of one session go
\* out at least min_interval apart; a call that comes earlier is held back
\* and sent, and the only errors a call raises are those of the request.
C16_MinInterval ==
    min_interval > 0 =>
        /\ \A n \in 1..(Len(net) - 1) : net[n + 1]["t"] - net[n]["t"] >= min_interval
        /\ \A n \in 1..Len(net) : net[n]["t"] >= net[n]["arrived"]
        /\ resp["kind"] = "raised" => resp["error"] \in {"RetryError", "HTTPError"}

\* C16 witness: a second call came before the interval was over and its
\* request went out when the interval had passed.
C16_Witness ==
    /\ min_interval = Longest /\ Len(net) = 2
    /\ net[2]["arrived"] < net[1]["t"] + min_interval
    /\ net[2]["t"] = net[1]["t"] + min_interval
    /\ resp["kind"] = "response"

\* C17: a request is attempted at most 1 + retries times, and no call
\* returns a response with a status of status_forcelist.
C17_BoundedRetries ==
    /\ attempts <= 1 + retries
    /\ resp["kind"] = "response" => resp["status_code"] \notin status_forcelist

\* C17 witness: a request was answered with transient statuses 1 + retries
\* times and the call raised.
C17_Witness ==
    /\ retries = DEFAULT_RETRIES /\ attempts = 1 + DEFAULT_RETRIES
    /\ hpc = "idle" /\ resp = Raised("RetryError")

\* C18: only status 200 responses are in the cache, and a memoized call
\* whose method, URL and parameters were answered with status 200 before
\* returns that response and puts nothing on the network.
C18_MemoizedNoNetwork ==
    /\ [](\A c \in cache : c["status_code"] = 200)
    /\ [][(calls' = calls + 1 /\ Memoized(call'))
             => \A c \in served :
                   c["key"] = call'["key"]
                   => /\ net' = net
                      /\ resp' = Response(c["status_code"], c["content"])]_vars

-----------------------------------------------------------------------------
(* main.py: the stages of one run with every stage selected.  A frame is    *)
(* followed only as far as main looks at it: rows, no rows, or None.        *)

Sources == {irs_bmf, propublica, charity_nav, va_vso, nrd, va_facilities, nodc}

\* An exception leaves the call.
Raise == [kind |-> "raise"]

\* extractor.run(resume=args.resume): a full checkpoint is returned as
\* loaded when resuming; IrsBmfExtractor.extract lets a failed download
\* out, the other adapters log their failures and return an empty frame.
adapter_run(s) ==
    IF args_resume /\ health[s] = "corrupt" THEN None
    ELSE IF health[s] = "down"
         THEN IF s = irs_bmf THEN Raise ELSE Value("empty")
         ELSE Value("rows")

InitMain ==
    /\ mpc = "stage1"
    /\ health \in [Sources -> {"up", "down", "corrupt"}]
    /\ args_resume \in BOOLEAN
    /\ frames = [s \in Sources |-> Value("empty")]
    /\ reached = {} /\ exit_code = 0
    /\ pc = "load" /\ df = <<>> /\ Idle /\ ExtIdle /\ HttpIdle /\ OutIdle

\* except Exception: sys.exit(1)
exited ==
    /\ mpc' = "exited"
    /\ exit_code' = 1
    /\ UNCHANGED <<frames, reached>>

stage1_irs_bmf ==
    /\ mpc = "stage1"
    /\ IF adapter_run(irs_bmf) = Raise
       THEN exited
       ELSE /\ frames' = [frames EXCEPT ![irs_bmf] = adapter_run(irs_bmf)]
            /\ mpc' = "stage2"
            /\ UNCHANGED <<reached, exit_code>>
    /\ UNCHANGED <<health, args_resume>>
    /\ UNCHANGED <<pipeline_vars, ext_vars, http_vars, out_vars>>

\* base_df["ein"] fails on None
stage2_api_enrichment ==
    /\ mpc = "stage2"
    /\ IF frames[irs_bmf] = None
       THEN exited
       ELSE /\ frames' = [frames EXCEPT ![propublica] = adapter_run(propublica),
                                        ![charity_nav] = adapter_run(charity_nav)]
            /\ mpc' = "stage3"
            /\ UNCHANGED <<reached, exit_code>>
    /\ UNCHANGED <<health, args_resume>>
    /\ UNCHANGED <<pipeline_vars, ext_vars, http_vars, out_vars>>

stage3_web_scraping ==
    /\ mpc = "stage3"
    /\ frames' = [frames EXCEPT ![va_vso] = adapter_run(va_vso),
                                ![nrd] = adapter_run(nrd)]
    /\ mpc' = "stage4"
    /\ UNCHANGED <<health, args_resume, reached, exit_code>>
    /\ UNCHANGED <<pipeline_vars, ext_vars, http_vars, out_vars>>

stage4_additional_sources ==
    /\ mpc = "stage4"
    /\ frames' = [frames EXCEPT ![va_facilities] = adapter_run(va_facilities),
                                ![nodc] = adapter_run(nodc)]
    /\ mpc' = "stage5"
    /\ UNCHANGED <<health, args_resume, reached, exit_code>>
    /\ UNCHANGED <<pipeline_vars, ext_vars, http_vars, out_vars>>

\* merge_all reads .empty of every source frame, which None does not have
stage5_merge ==
    /\ mpc = "stage5"
    /\ IF \E s \in Sources : frames[s] = None
       THEN exited
       ELSE /\ reached' = reached \cup {5}
            /\ mpc' = "stage6"
            /\ UNCHANGED <<frames, exit_code>>
    /\ UNCHANGED <<health, args_resume>>
    /\ UNCHANGED <<pipeline_vars, ext_vars, http_vars, out_vars>>

stage6_dedup ==
    /\ mpc = "stage6"
    /\ reached' = reached \cup {6}
    /\ mpc' = "stage7"
    /\ UNCHANGED <<health, args_resume, frames, exit_code>>
    /\ UNCHANGED <<pipeline_vars, ext_vars, http_vars, out_vars>>

stage7_enrichment ==
    /\ mpc = "stage7"
    /\ reached' = reached \cup {7}
    /\ mpc' = "stage8"
    /\ UNCHANGED <<health, args_resume, frames, exit_code>>
    /\ UNCHANGED <<pipeline_vars, ext_vars, http_vars, out_vars>>

\* stage8_output, then main returns
stage8_output ==
    /\ mpc = "stage8"
    /\ reached' = reached \cup {8}
    /\ mpc' = "complete"
    /\ UNCHANGED <<health, args_resume, frames, exit_code>>
    /\ UNCHANGED <<pipeline_vars, ext_vars, http_vars, out_vars>>

NextMain ==
    stage1_irs_bmf \/ stage2_api_enrichment \/ stage3_web_scraping
    \/ stage4_additional_sources \/ stage5_merge \/ stage6_dedup
    \/ stage7_enrichment \/ stage8_output

SpecMain == InitMain /\ [][NextMain]_vars

\* The source failed in this run: it was down, or its checkpoint could not
\* be loaded on resume.
Failed(s) == health[s] = "down" \/ (args_resume /\ health[s] = "corrupt")

\* C20: whatever sources fail, main ends with exit code 0 after the merge,
\* the deduplication and the output have run, each failed source having
\* gone into the merge as an empty frame.
C20_ContinuesPastFailures ==
    mpc \in {"complete", "exited"} =>
        /\ exit_code = 0
        /\ {5, 6, 8} \subseteq reached
        /\ \A s \in Sources : Failed(s) => frames[s] = Value("empty")

-----------------------------------------------------------------------------
(* loaders/csv_writer.py: calculate_confidence and assign_grade on one row, *)
(* which is scored, then gains a field and is scored again.                 *)

\* The fields assign_grade reads.
GradeFields ==
    {"org_name", "ein", "street_address", "city", "state", "total_revenue",
     "ntee_code", "phone", "email", "website", "charity_navigator_rating",
     "va_accredited"}

\* The weighted fields assign_grade does not read, in the order they are
\* filled here.
OtherFields ==
    <<"zip_code", "mission_statement", "total_assets", "num_employees",
      "services_offered", "facebook_url", "twitter_url", "data_sources",
      "key_personnel">>

WeightedFields == {CONFIDENCE_WEIGHTS[n][1] : n \in 1..Len(CONFIDENCE_WEIGHTS)}

Blank == <<" ">>
X == <<"x">>
No == <<"N", "o">>

\* The non-blank values a field is given.
FillValues(f) == IF f = "va_accredited" THEN {Yes, No} ELSE {X}

\* Fields that assign_grade and the weights treat alike are filled in one
\* order: state after city, website after email.
After(r, f) ==
    CASE f = "state" -> _row_has(r, "city")
      [] f = "website" -> _row_has(r, "email")
      [] OTHER -> TRUE

\* The fields that can be filled next: a field assign_grade reads that is
\* absent or blank, and the first other field that is.
Fillable(r) ==
    {f \in GradeFields : ~_row_has(r, f) /\ After(r, f)}
    \cup {OtherFields[n] : n \in {m \in 1..Len(OtherFields) :
                                    /\ ~_row_has(r, OtherFields[m])
                                    /\ \A k \in 1..(m - 1) : _row_has(r, OtherFields[k])}}

InitGrade ==
    /\ gpc = "row"
    /\ \E name \in {NA, Blank}, phone \in {NA, EmptyStr} :
          row = [f \in WeightedFields |->
                    IF f = "org_name" THEN name
                    ELSE IF f = "phone" THEN phone ELSE NA]
    /\ score = 0 /\ grade = "F" /\ columns = {} /\ source_columns = {}
    /\ pc = "load" /\ df = <<>> /\ Idle /\ ExtIdle /\ HttpIdle /\ MainIdle

\* calculate_confidence and assign_grade on the row, as write_csv applies
\* them to each row of the coerced frame
Score ==
    /\ gpc = "row"
    /\ score' = calculate_confidence(row)
    /\ grade' = assign_grade(row)
    /\ gpc' = "graded"
    /\ UNCHANGED <<row, columns, source_columns>>
    /\ UNCHANGED <<pipeline_vars, ext_vars, http_vars, main_vars>>

\* The same row with one more field filled is scored.
Fill ==
    /\ gpc = "graded"
    /\ \E f \in Fillable(row) : \E v \in FillValues(f) :
          /\ row' = [row EXCEPT ![f] = v]
          /\ score' = calculate_confidence(row')
          /\ grade' = assign_grade(row')
    /\ UNCHANGED <<gpc, columns, source_columns>>
    /\ UNCHANGED <<pipeline_vars, ext_vars, http_vars, main_vars>>

NextGrade == Score \/ Fill

SpecGrade == InitGrade /\ [][NextGrade]_vars

\* The claims' vocabulary, read off the row itself.
Filled(f) == row[f] # NA /\ row[f] \notin {EmptyStr, Blank}
Identity ==
    /\ Filled("org_name") /\ Filled("ein")
    /\ (Filled("street_address") \/ (Filled("city") /\ Filled("state")))
Financials == Filled("total_revenue")
Contact == Filled("phone") \/ Filled("email") \/ Filled("website")
Rating == Filled("charity_navigator_rating") \/ row["va_accredited"] = Yes
Ntee == Filled("ntee_code")

\* C21 as stated: a record with a name, an EIN and an address but no financial,
\* contact or rating data is graded "D".
C21_Original ==
    (gpc = "graded" /\ Identity /\ ~Financials /\ ~Contact /\ ~Rating)
        => grade = "D"

\* C21: a record with a name, an EIN and an address but no financial, contact
\* or rating data and no NTEE code is graded "D"; with an NTEE code it is
\* graded "C".
C21_MinimalGetsD ==
    (gpc = "graded" /\ Identity /\ ~Financials /\ ~Contact /\ ~Rating)
        => grade = (IF Ntee THEN "C" ELSE "D")

C21_Witness ==
    /\ gpc = "graded" /\ Identity /\ ~Financials /\ ~Contact /\ ~Rating /\ ~Ntee
    /\ ~Filled("street_address")
    /\ grade = "D"

\* The documented tiers, highest first.
HighestTier ==
    IF Identity /\ Financials /\ Contact /\ Rating THEN "A"
    ELSE IF Identity /\ Financials /\ Ntee THEN "B"
    ELSE IF Identity /\ (Financials \/ Ntee) THEN "C"
    ELSE IF Identity THEN "D"
    ELSE "F"

\* C22: for every combination of field presence assign_grade returns the
\* highest documented tier the record satisfies.
C22_HighestTierWins == gpc = "graded" => grade = HighestTier

\* The expected score in thousandths: the weights of the filled fields over
\* the total weight.
RECURSIVE FilledWeight(_)
FilledWeight(n) ==
    IF n = 0 THEN 0
    ELSE FilledWeight(n - 1)
         + (IF Filled(CONFIDENCE_WEIGHTS[n][1]) THEN CONFIDENCE_WEIGHTS[n][2] ELSE 0)

RECURSIVE AllWeight(_)
AllWeight(n) == IF n = 0 THEN 0 ELSE AllWeight(n - 1) + CONFIDENCE_WEIGHTS[n][2]

\* C23: the score is the filled weight over the total weight, lies in [0, 1],
\* is 0 when no weighted field is filled and 1 when all are, and never
\* decreases when one more weighted field is filled.
C23_MonotonicBounded ==
    /\ [](gpc = "graded" =>
            /\ score >= 0 /\ score <= 1000
            /\ score * AllWeight(Len(CONFIDENCE_WEIGHTS))
                 = 1000 * FilledWeight(Len(CONFIDENCE_WEIGHTS))
            /\ (\A f \in WeightedFields : ~Filled(f)) => score = 0
            /\ (\A f \in WeightedFields : Filled(f)) => score = 1000)
    /\ [][(gpc = "graded" /\ gpc' = "graded") => score' >= score]_vars

C23_Witness ==
    /\ gpc = "graded"
    /\ \A f \in WeightedFields : Filled(f)
    /\ score = 1000

\* The order A > B > C > D > F.
GradeRank(g) ==
    CASE g = "A" -> 4 [] g = "B" -> 3 [] g = "C" -> 2 [] g = "D" -> 1 [] g = "F" -> 0

Grades == {"A", "B", "C", "D", "F"}

\* C29: filling one more field never moves a graded record to a lower grade.
C29_GradeMonotonic ==
    [][(gpc = "graded" /\ gpc' = "graded") =>
          /\ grade' \in Grades
          /\ grade \in Grades => GradeRank(grade') >= GradeRank(grade)]_vars

-----------------------------------------------------------------------------
(* extractors/base_extractor.py: a fresh BaseExtractor.run on the frame    *)
(* transform returned, which is loaded row by row.                         *)

MaxRunRows == 2

\* A run tagging every row, tagged before or not.
mask_every_row(ds, name) == TRUE

\* mask = ~df["data_sources"].str.contains(self.name, na=False)
mask(ds, name) == ~str_contains(ds, name)

\* df["data_sources"].fillna("")
fillna(v) == IF isna(v) THEN EmptyStr ELSE v

\* The data_sources value run leaves in a row.
tag(v, name) ==
    LET ds == fillna(v)
    IN IF mask(ds, name)
       THEN (IF ds = EmptyStr THEN ds ELSE ds \o <<";">>) \o name
       ELSE ds

\* The provenance a transformed row may carry: none, or one or two of the
\* sources, joined as the merge joins them.
ProvenancesR ==
    {NA, EmptyStr}
    \cup {join(sorted(S), ";") :
            S \in {T \in SUBSET Range(SOURCE_PRIORITY) : Cardinality(T) \in {1, 2}}}

\* Rows transform returns, with a data_sources column or without one.
RawRowsR ==
    {[org_name |-> N1]} \cup {[org_name |-> N1, data_sources |-> v] : v \in ProvenancesR}

InitRun ==
    /\ pc = "raw" /\ src_name \in Range(SOURCE_PRIORITY)
    /\ src_df = <<>> /\ budget = MaxRunRows
    /\ base = <<>> /\ result = <<>> /\ before = <<>> /\ pos = 0
    /\ df = <<>> /\ scores = <<>> /\ alt = <<>>
    /\ keyed = <<>> /\ IoIdle

\* One more row in the frame transform returns.
LoadRaw ==
    /\ pc = "raw"
    /\ budget > 0
    /\ \E r \in RawRowsR : src_df' = Append(src_df, r)
    /\ budget' = budget - 1
    /\ UNCHANGED <<pc, base, src_name, result, df, before, scores, alt, pos>>
    /\ UNCHANGED <<keyed, io_vars>>

\* run(resume=False) from coerce_schema on: before keeps the coerced frame,
\* df the frame returned.
BaseExtractor_run ==
    /\ pc = "raw"
    /\ before' = coerce_schema(src_df)
    /\ df' = [i \in 1..Len(src_df) |->
                 [coerce_row(src_df[i]) EXCEPT
                     !["data_sources"] = tag(@, src_name)]]
    /\ pc' = "returned"
    /\ UNCHANGED <<base, src_name, src_df, result, scores, alt, pos, budget>>
    /\ UNCHANGED <<keyed, io_vars>>

NextRun == LoadRaw \/ BaseExtractor_run

SpecRun == InitRun /\ [][NextRun]_vars

\* How many times a data_sources value lists a source.
Listed(val, name) ==
    LET parts == split(val, ";")
    IN Cardinality({k \in 1..Len(parts) : parts[k] = name})

\* C26: every row run returns lists the adapter's name once, and lists every
\* source it listed before.
C26_TaggedOnce ==
    pc = "returned" =>
        /\ Len(df) = Len(before)
        /\ \A i \in 1..Len(df) :
              /\ notna(df[i]["data_sources"])
              /\ Listed(df[i]["data_sources"], src_name) = 1
              /\ SourcesOf(before[i]["data_sources"])
                     \subseteq SourcesOf(df[i]["data_sources"])

\* C26 witness: a row that listed another source came back listing both, and
\* a row that listed the adapter already came back as it was.
C26_Witness ==
    /\ pc = "returned"
    /\ \E i \in 1..Len(df) :
          /\ SourcesOf(before[i]["data_sources"]) # {}
          /\ src_name \notin SourcesOf(before[i]["data_sources"])
          /\ SourcesOf(df[i]["data_sources"])
                 = SourcesOf(before[i]["data_sources"]) \cup {src_name}
    /\ \E i \in 1..Len(df) :
          /\ src_name \in SourcesOf(before[i]["data_sources"])
          /\ df[i] = before[i]

-----------------------------------------------------------------------------
(* main, stages 5 to 8, run twice side by side: on a base frame and its    *)
(* sources, and on the same frames with other values in the three          *)
(* confidence columns.  base, result and df belong to the first run,       *)
(* src_df, before and alt to the second.                                   *)

MaxTwinRows == 2

CONFIDENCE_COLUMNS == {"confidence_score", "confidence_grade", "confidence_detail"}

\* Incoming confidence values: score, grade, detail.
ConfNone == <<NA, NA, NA>>
ConfHigh == <<<<"0", ".", "9">>, <<"A">>, <<"{", "}">>>>
ConfLow == <<<<"0", ".", "1">>, <<"F">>, EmptyStr>>

\* What the two runs hold in the confidence columns of the same record.
ConfPairs ==
    {<<ConfNone, ConfNone>>, <<ConfHigh, ConfLow>>, <<ConfNone, ConfHigh>>}

WithConfidence(r, c) ==
    [col \in DOMAIN r \cup CONFIDENCE_COLUMNS |->
        IF col = "confidence_score" THEN c[1]
        ELSE IF col = "confidence_grade" THEN c[2]
        ELSE IF col = "confidence_detail" THEN c[3]
        ELSE r[col]]

\* Base records, before their confidence columns are set.
BaseRowsW ==
    { Row(N1, e, <<"x">>, <<"K", "Y">>, NA, w, irs_bmf) :
        e \in {NA, E1}, w \in {NA, W_wa} }

\* The record of the keyed source and the record of the appended source.
KeyedRowW == [ein |-> E1, phone |-> P2, data_sources |-> propublica]
AppendRowW ==
    [org_name |-> N1, city |-> <<"x">>, state |-> <<"K", "Y">>, website |-> W_b,
     data_sources |-> va_vso]

\* A source frame of one run: empty, or its record with the confidence values
\* of that run.
SourceFrame(r, pair, run) ==
    IF pair = <<>> THEN <<>> ELSE <<WithConfidence(r, pair[run])>>

\* merge_all with propublica as the only keyed source that is not empty and
\* va_vso as the only other one
merge_all(b, pp_df, vso_df) ==
    LET start == coerce_schema(b)
        joined == IF pp_df = <<>> THEN start
                  ELSE _smart_merge_on_ein(start, coerce_schema(pp_df), propublica)
    IN IF vso_df = <<>> THEN joined ELSE joined \o coerce_schema(vso_df)

InitTwin ==
    /\ pc = "base" /\ base = <<>> /\ src_df = <<>> /\ budget = MaxTwinRows
    /\ result = <<>> /\ before = <<>> /\ df = <<>> /\ alt = <<>>
    /\ src_name = NA /\ pos = 0 /\ scores = <<>>
    /\ keyed = <<>> /\ IoIdle

\* One more record in the base frame of each run.
LoadTwin ==
    /\ pc = "base"
    /\ budget > 0
    /\ \E r \in BaseRowsW : \E pair \in ConfPairs :
          /\ base' = Append(base, WithConfidence(r, pair[1]))
          /\ src_df' = Append(src_df, WithConfidence(r, pair[2]))
    /\ budget' = budget - 1
    /\ UNCHANGED <<pc, src_name, result, df, before, scores, alt, pos>>
    /\ UNCHANGED <<keyed, io_vars>>

\* stage5_merge in both runs
TwinStage5 ==
    /\ pc = "base"
    /\ \E kp \in {<<>>} \cup ConfPairs : \E ap \in {<<>>} \cup ConfPairs :
          /\ result' = merge_all(base, SourceFrame(KeyedRowW, kp, 1),
                                  SourceFrame(AppendRowW, ap, 1))
          /\ before' = merge_all(src_df, SourceFrame(KeyedRowW, kp, 2),
                                  SourceFrame(AppendRowW, ap, 2))
    /\ pc' = "merged"
    /\ UNCHANGED <<base, src_name, src_df, df, scores, alt, pos, budget>>
    /\ UNCHANGED <<keyed, io_vars>>

\* stage6_dedup in both runs
TwinStage6 ==
    /\ pc = "merged"
    /\ df' = deduplicate(result)
    /\ alt' = deduplicate(before)
    /\ pc' = "deduped"
    /\ UNCHANGED <<base, src_name, src_df, result, before, scores, pos, budget>>
    /\ UNCHANGED <<keyed, io_vars>>

\* stage7_enrichment in both runs: the same pages answer
TwinStage7 ==
    /\ pc = "deduped"
    /\ \E hits \in {{}, 1..Len(df)} :
          /\ df' = enrich(df, NA, hits)
          /\ alt' = enrich(alt, NA, hits \cap (1..Len(alt)))
    /\ pc' = "enriched"
    /\ UNCHANGED <<base, src_name, src_df, result, before, scores, pos, budget>>
    /\ UNCHANGED <<keyed, io_vars>>

\* stage8_output in both runs
TwinStage8 ==
    /\ pc = "enriched"
    /\ df' = write_csv(normalize_dataframe(df))
    /\ alt' = write_csv(normalize_dataframe(alt))
    /\ pc' = "written"
    /\ UNCHANGED <<base, src_name, src_df, result, before, scores, pos, budget>>
    /\ UNCHANGED <<keyed, io_vars>>

NextTwin == LoadTwin \/ TwinStage5 \/ TwinStage6 \/ TwinStage7 \/ TwinStage8

SpecTwin == InitTwin /\ [][NextTwin]_vars

\* Two frames hold the same records but for the confidence columns.
SameButConfidence(f, g) ==
    /\ Len(f) = Len(g)
    /\ \A i \in 1..Len(f) : \A col \in COLUMN_NAMES \ CONFIDENCE_COLUMNS :
          f[i][col] = g[i][col]

\* C24: two runs whose inputs differ only in incoming confidence values
\* hold the same records, confidence columns aside, after the merge, the
\* dedup and the enrichment, and write the same output.
C24_DerivedAtTheEnd ==
    /\ pc = "merged" => SameButConfidence(result, before)
    /\ pc \in {"deduped", "enriched"} => SameButConfidence(df, alt)
    /\ pc = "written" => df = alt

\* C24 witness: the inputs differed, the dedup merged two records, and the
\* outputs are the same.
C24_Witness ==
    /\ pc = "written"
    /\ base # src_df
    /\ df = alt
    /\ Len(df) < Len(result)
    /\ \E i \in 1..Len(df) : df[i]["confidence_grade"] = <<"F">>

-----------------------------------------------------------------------------
(* The column names of the frames the components hand on: a frame comes    *)
(* from transform, goes through BaseExtractor.run, merge_all, the three    *)
(* tiers of deduplicate and write_csv.  Which branch a component takes     *)
(* depends on the rows; every branch is taken here.                        *)

\* The names of SCHEMA_COLUMNS, in order.
SCHEMA_COLUMNS ==
    << <<"o", "r", "g", "_", "n", "a", "m", "e">>,
       <<"o", "r", "g", "_", "n", "a", "m", "e", "_", "a", "l", "t">>,
       <<"e", "i", "n">>,
       <<"o", "r", "g", "_", "t", "y", "p", "e">>,
       <<"s", "t", "r", "e", "e", "t", "_", "a", "d", "d", "r", "e", "s", "s">>,
       <<"s", "t", "r", "e", "e", "t", "_", "a", "d", "d", "r", "e", "s", "s", "_", "2">>,
       <<"c", "i", "t", "y">>,
       <<"s", "t", "a", "t", "e">>,
       <<"z", "i", "p", "_", "c", "o", "d", "e">>,
       <<"c", "o", "u", "n", "t", "r", "y">>,
       <<"p", "h", "o", "n", "e">>,
       <<"e", "m", "a", "i", "l">>,
       <<"w", "e", "b", "s", "i", "t", "e">>,
       <<"n", "t", "e", "e", "_", "c", "o", "d", "e">>,
       <<"n", "t", "e", "e", "_", "d", "e", "s", "c", "r", "i", "p", "t", "i", "o", "n">>,
       <<"i", "r", "s", "_", "s", "u", "b", "s", "e", "c", "t", "i", "o", "n">>,
       <<"i", "r", "s", "_", "f", "i", "l", "i", "n", "g", "_", "r", "e", "q", "u", "i", "r", "e", "m", "e", "n", "t">>,
       <<"t", "a", "x", "_", "e", "x", "e", "m", "p", "t", "_", "s", "t", "a", "t", "u", "s">>,
       <<"r", "u", "l", "i", "n", "g", "_", "d", "a", "t", "e">>,
       <<"m", "i", "s", "s", "i", "o", "n", "_", "s", "t", "a", "t", "e", "m", "e", "n", "t">>,
       <<"s", "e", "r", "v", "i", "c", "e", "s", "_", "o", "f", "f", "e", "r", "e", "d">>,
       <<"s", "e", "r", "v", "i", "c", "e", "_", "c", "a", "t", "e", "g", "o", "r", "i", "e", "s">>,
       <<"e", "l", "i", "g", "i", "b", "i", "l", "i", "t", "y", "_", "r", "e", "q", "u", "i", "r", "e", "m", "e", "n", "t", "s">>,
       <<"s", "e", "r", "v", "i", "c", "e", "_", "a", "r", "e", "a">>,
       <<"y", "e", "a", "r", "_", "f", "o", "u", "n", "d", "e", "d">>,
       <<"f", "i", "s", "c", "a", "l", "_", "y", "e", "a", "r", "_", "e", "n", "d">>,
       <<"t", "o", "t", "a", "l", "_", "r", "e", "v", "e", "n", "u", "e">>,
       <<"t", "o", "t", "a", "l", "_", "e", "x", "p", "e", "n", "s", "e", "s">>,
       <<"t", "o", "t", "a", "l", "_", "a", "s", "s", "e", "t", "s">>,
       <<"t", "o", "t", "a", "l", "_", "l", "i", "a", "b", "i", "l", "i", "t", "i", "e", "s">>,
       <<"n", "e", "t", "_", "a", "s", "s", "e", "t", "s">>,
       <<"a", "n", "n", "u", "a", "l", "_", "r", "e", "v", "e", "n", "u", "e", "_", "r", "a", "n", "g", "e">>,
       <<"n", "u", "m", "_", "e", "m", "p", "l", "o", "y", "e", "e", "s">>,
       <<"n", "u", "m", "_", "v", "o", "l", "u", "n", "t", "e", "e", "r", "s">>,
       <<"k", "e", "y", "_", "p", "e", "r", "s", "o", "n", "n", "e", "l">>,
       <<"b", "o", "a", "r", "d", "_", "m", "e", "m", "b", "e", "r", "s">>,
       <<"c", "h", "a", "r", "i", "t", "y", "_", "n", "a", "v", "i", "g", "a", "t", "o", "r", "_", "r", "a", "t", "i", "n", "g">>,
       <<"c", "h", "a", "r", "i", "t", "y", "_", "n", "a", "v", "i", "g", "a", "t", "o", "r", "_", "s", "c", "o", "r", "e">>,
       <<"c", "n", "_", "a", "l", "e", "r", "t", "_", "l", "e", "v", "e", "l">>,
       <<"v", "a", "_", "a", "c", "c", "r", "e", "d", "i", "t", "e", "d">>,
       <<"a", "c", "c", "r", "e", "d", "i", "t", "a", "t", "i", "o", "n", "_", "d", "e", "t", "a", "i", "l", "s">>,
       <<"f", "a", "c", "e", "b", "o", "o", "k", "_", "u", "r", "l">>,
       <<"t", "w", "i", "t", "t", "e", "r", "_", "u", "r", "l">>,
       <<"l", "i", "n", "k", "e", "d", "i", "n", "_", "u", "r", "l">>,
       <<"i", "n", "s", "t", "a", "g", "r", "a", "m", "_", "u", "r", "l">>,
       <<"y", "o", "u", "t", "u", "b", "e", "_", "u", "r", "l">>,
       <<"d", "a", "t", "a", "_", "s", "o", "u", "r", "c", "e", "s">>,
       <<"d", "a", "t", "a", "_", "f", "r", "e", "s", "h", "n", "e", "s", "s", "_", "d", "a", "t", "e">>,
       <<"c", "o", "n", "f", "i", "d", "e", "n", "c", "e", "_", "s", "c", "o", "r", "e">>,
       <<"c", "o", "n", "f", "i", "d", "e", "n", "c", "e", "_", "g", "r", "a", "d", "e">>,
       <<"c", "o", "n", "f", "i", "d", "e", "n", "c", "e", "_", "d", "e", "t", "a", "i", "l">>,
       <<"r", "e", "c", "o", "r", "d", "_", "l", "a", "s", "t", "_", "u", "p", "d", "a", "t", "e", "d">> >>

CanonicalColumns == Range(SCHEMA_COLUMNS)

c_ein == <<"e", "i", "n">>
c_data_sources == <<"d", "a", "t", "a", "_", "s", "o", "u", "r", "c", "e", "s">>
c_group_key == <<"_", "g", "r", "o", "u", "p", "_", "k", "e", "y">>
c_merge_group == <<"_", "m", "e", "r", "g", "e", "_", "g", "r", "o", "u", "p">>
c_domain == <<"_", "d", "o", "m", "a", "i", "n">>

\* Columns a transform may return: canonical ones and others.
RawColumns ==
    {<<"o", "r", "g", "_", "n", "a", "m", "e">>, c_ein, <<"p", "h", "o", "n", "e">>, c_data_sources,
     <<"N", "A", "M", "E">>, <<"p", "h", "o", "n", "e", "_", "n", "o", "d", "c">>, c_domain}

\* Columns of a keyed source that may hold data, besides the identifier.
SourceDataColumns ==
    {<<"p", "h", "o", "n", "e">>, <<"t", "o", "t", "a", "l", "_", "r", "e", "v", "e", "n", "u", "e">>, c_data_sources,
     <<"c", "o", "n", "f", "i", "d", "e", "n", "c", "e", "_", "s", "c", "o", "r", "e">>}

\* A coerce_schema that adds the missing columns and keeps the others.
coerce_columns_add_only(cols) == cols \cup CanonicalColumns

\* coerce_schema: every missing column is added, and df[COLUMN_NAMES] is
\* returned
coerce_columns(cols) ==
    LET added == cols \cup {c \in CanonicalColumns : c \notin cols}
    IN {c \in added : c \in CanonicalColumns}

\* BaseExtractor.run after transform: coerce_schema, then data_sources and
\* data_freshness_date are assigned
run_columns(cols) ==
    coerce_columns(cols) \cup {c_data_sources, <<"d", "a", "t", "a", "_", "f", "r", "e", "s", "h", "n", "e", "s", "s", "_", "d", "a", "t", "e">>}

endswith(s, suffix) ==
    Len(s) >= Len(suffix) /\ SubSeq(s, Len(s) - Len(suffix) + 1, Len(s)) = suffix

\* _smart_merge_on_ein: the columns returned, for a coerced source whose
\* columns data (besides ein) hold values; returned says whether the early
\* return is taken.
_smart_merge_columns(base_cols, data, source_name, returned) ==
    LET suffix == <<"_">> \o source_name
        \* base.merge(source_slim, on="ein", suffixes=("", suffix))
        merged == base_cols
                  \cup {IF c \in base_cols THEN c \o suffix ELSE c : c \in data}
        \* the fill loop drops the suffixed column of every source column
        looped == merged \ {c \o suffix : c \in data}
        \* the data_sources union drops its suffixed column
        unioned == looped \ {c_data_sources \o suffix}
    IN IF returned THEN base_cols
       ELSE {c \in unioned : ~endswith(c, suffix)}

\* _tier1_exact_ein: branch "df" returns the frame as it is, "merged" the
\* concat; keeps_key says whether groupby.apply hands the key column to
\* _merge_rows, which depends on the pandas version.
_tier1_columns(cols, branch, keeps_key) ==
    LET merged == IF keeps_key THEN cols ELSE cols \ {c_ein}
    IN IF branch = "df" THEN cols ELSE cols \cup merged \cup cols

\* _tier2_fuzzy_name_city: branches "df", "no_merge_map" and "merged"
_tier2_columns(cols, branch, keeps_key) ==
    LET candidates == cols \cup {c_group_key}
        to_merge == candidates \cup {c_merge_group}
        grouped == to_merge \ {c_group_key}
        applied == IF keeps_key THEN grouped ELSE grouped \ {c_merge_group}
        merged == applied \ {c_merge_group}
        unmerged == candidates \ {c_group_key}
    IN IF branch = "df" THEN cols
       ELSE IF branch = "no_merge_map" THEN (candidates \ {c_group_key}) \cup cols
       ELSE unmerged \cup merged \cup cols

\* _tier3_url_domain: branches "df", "no_duplicates" and "merged"
_tier3_columns(cols, branch, keeps_key) ==
    LET with_url == cols \cup {c_domain}
        applied == IF keeps_key THEN with_url ELSE with_url \ {c_domain}
        unique == with_url \ {c_domain}
        merged == applied \ {c_domain}
    IN IF branch = "df" THEN cols
       ELSE IF branch = "no_duplicates" THEN (with_url \ {c_domain}) \cup cols
       ELSE unique \cup merged \cup cols

\* write_csv: coerce_schema, then the derived columns are assigned
write_csv_columns(cols) ==
    coerce_columns(cols)
    \cup {<<"c", "o", "n", "f", "i", "d", "e", "n", "c", "e", "_", "s", "c", "o", "r", "e">>,
          <<"c", "o", "n", "f", "i", "d", "e", "n", "c", "e", "_", "d", "e", "t", "a", "i", "l">>,
          <<"c", "o", "n", "f", "i", "d", "e", "n", "c", "e", "_", "g", "r", "a", "d", "e">>,
          <<"a", "n", "n", "u", "a", "l", "_", "r", "e", "v", "e", "n", "u", "e", "_", "r", "a", "n", "g", "e">>,
          <<"r", "e", "c", "o", "r", "d", "_", "l", "a", "s", "t", "_", "u", "p", "d", "a", "t", "e", "d">>}

InitColumns ==
    /\ gpc = "transform" /\ columns \in SUBSET RawColumns /\ source_columns = {}
    /\ row = <<>> /\ score = 0 /\ grade = "F"
    /\ pc = "load" /\ df = <<>> /\ Idle /\ ExtIdle /\ HttpIdle /\ MainIdle

\* BaseExtractor.run returns the frame.
RunColumns ==
    /\ gpc = "transform"
    /\ columns' = run_columns(columns)
    /\ gpc' = "run"
    /\ UNCHANGED source_columns
    /\ UNCHANGED <<row, score, grade>>
    /\ UNCHANGED <<pipeline_vars, ext_vars, http_vars, main_vars>>

\* merge_all: result = coerce_schema(base.copy())
MergeStartColumns ==
    /\ gpc = "run"
    /\ columns' = coerce_columns(columns)
    /\ gpc' = "keyed"
    /\ UNCHANGED source_columns
    /\ UNCHANGED <<row, score, grade>>
    /\ UNCHANGED <<pipeline_vars, ext_vars, http_vars, main_vars>>

\* merge_all: one keyed source is coerced and merged
MergeKeyedColumns ==
    /\ gpc = "keyed"
    /\ \E n \in 1..Len(EIN_SOURCES) : \E data \in SUBSET SourceDataColumns :
       \E returned \in BOOLEAN :
          /\ source_columns' = data
          /\ columns' = _smart_merge_columns(columns, data, EIN_SOURCES[n], returned)
    /\ UNCHANGED gpc
    /\ UNCHANGED <<row, score, grade>>
    /\ UNCHANGED <<pipeline_vars, ext_vars, http_vars, main_vars>>

\* merge_all: a source without identifiers is coerced and appended, and
\* merge_all returns
MergeAppendColumns ==
    /\ gpc = "keyed"
    /\ \E raw \in SUBSET RawColumns :
          /\ source_columns' = raw
          /\ columns' = columns \cup coerce_columns(raw)
    /\ gpc' = "merge_all"
    /\ UNCHANGED <<row, score, grade>>
    /\ UNCHANGED <<pipeline_vars, ext_vars, http_vars, main_vars>>

Tier1Columns ==
    /\ gpc = "merge_all"
    /\ \E branch \in {"df", "merged"} : \E keeps_key \in BOOLEAN :
          columns' = _tier1_columns(columns, branch, keeps_key)
    /\ gpc' = "tier1"
    /\ UNCHANGED source_columns
    /\ UNCHANGED <<row, score, grade>>
    /\ UNCHANGED <<pipeline_vars, ext_vars, http_vars, main_vars>>

Tier2Columns ==
    /\ gpc = "tier1"
    /\ \E branch \in {"df", "no_merge_map", "merged"} : \E keeps_key \in BOOLEAN :
          columns' = _tier2_columns(columns, branch, keeps_key)
    /\ gpc' = "tier2"
    /\ UNCHANGED source_columns
    /\ UNCHANGED <<row, score, grade>>
    /\ UNCHANGED <<pipeline_vars, ext_vars, http_vars, main_vars>>

\* _tier3_url_domain, after which deduplicate returns
Tier3Columns ==
    /\ gpc = "tier2"
    /\ \E branch \in {"df", "no_duplicates", "merged"} : \E keeps_key \in BOOLEAN :
          columns' = _tier3_columns(columns, branch, keeps_key)
    /\ gpc' = "deduplicate"
    /\ UNCHANGED source_columns
    /\ UNCHANGED <<row, score, grade>>
    /\ UNCHANGED <<pipeline_vars, ext_vars, http_vars, main_vars>>

WriteColumns ==
    /\ gpc = "deduplicate"
    /\ columns' = write_csv_columns(columns)
    /\ gpc' = "write_csv"
    /\ UNCHANGED source_columns
    /\ UNCHANGED <<row, score, grade>>
    /\ UNCHANGED <<pipeline_vars, ext_vars, http_vars, main_vars>>

NextColumns ==
    RunColumns \/ MergeStartColumns \/ MergeKeyedColumns \/ MergeAppendColumns
    \/ Tier1Columns \/ Tier2Columns \/ Tier3Columns \/ WriteColumns

SpecColumns == InitColumns /\ [][NextColumns]_vars

\* C25: the frame BaseExtractor.run, every keyed merge, merge_all, each tier
\* of deduplicate and write_csv hand on has the canonical columns, all of
\* them and no other.
C25_CanonicalColumns ==
    gpc \in {"run", "keyed", "merge_all", "tier1", "tier2", "deduplicate",
              "write_csv"}
        => columns = CanonicalColumns

\* C25 witness: a keyed source with values in several columns, data_sources
\* among them, was merged, and the suffixed columns are gone.
C25_Witness ==
    /\ gpc = "keyed" /\ columns = CanonicalColumns
    /\ c_data_sources \in source_columns /\ Cardinality(source_columns) > 1

====
